---- MODULE Spec2Model ----
(***************************************************************************)
(* A model of the DingTalk channel plugin (src/plugin.ts): the session     *)
(* registry (getSessionKey), the reset-command predicate                   *)
(* (isNewSessionCommand) and the per-message handler                       *)
(* (handleDingTalkMessage) with the AI card lifecycle (createAICard,       *)
(* streamAICard, finishAICard).                                            *)
(*                                                                         *)
(* Strings are sequences of one-character strings, so that template        *)
(* strings, trim() and toLowerCase() are computed and not assumed.         *)
(***************************************************************************)
EXTENDS Integers, Sequences, FiniteSets, TLC

VARIABLES
    now,            \* the reading Date.now() gives
    userSessions,   \* Map<senderId, UserSession>
    issued,         \* history: the session keys getSessionKey has returned, per sender
    lastCall,       \* history: the latest getSessionKey call, its pre-state and its result
    text,           \* the argument of isNewSessionCommand
    cmdResult,      \* what isNewSessionCommand returned for text: <<>> before the call
    dingtalkConfig, \* the account's configuration
    accessToken,    \* the cached access token
    accessTokenExpiry,
    h,              \* the frame of handleDingTalkMessage: position and locals
    calls,          \* history: the remote calls made for the message being handled
    handled,        \* the number of messages received
    gw,             \* a run of streamFromGateway: the response, the generator's locals
    media,          \* a run of processLocalImages: the content, the matches, the result
    acct,           \* an account started by startAccount: the client, the stop flag
    tk              \* concurrent calls of getAccessToken: their frames, the responses

vars == <<now, userSessions, issued, lastCall, text, cmdResult,
          dingtalkConfig, accessToken, accessTokenExpiry, h, calls, handled,
          gw, media, acct, tk>>

sessVars == <<now, userSessions, issued, lastCall>>
cmdVars == <<text, cmdResult>>
ioVars == <<gw, media, acct, tk>>
hVars == <<dingtalkConfig, accessToken, accessTokenExpiry, h, calls, handled>>

----------------------------------------------------------------------------
(* Strings *)

DigitChars == <<"0", "1", "2", "3", "4", "5", "6", "7", "8", "9">>

\* `${n}` for a non-negative integer n
RECURSIVE Dec(_)
Dec(n) ==
    IF n < 10 THEN <<DigitChars[n + 1]>>
    ELSE Dec(n \div 10) \o <<DigitChars[(n % 10) + 1]>>

----------------------------------------------------------------------------
(* Session registry *)

NoSession == [none |-> TRUE]
NoCall == [none |-> TRUE]

KeyPrefix == <<"d", "i", "n", "g", "t", "a", "l", "k", ":">>

\* `dingtalk:${senderId}`
FirstSessionId_Timestamped(senderId, t) == KeyPrefix \o senderId \o <<":">> \o Dec(t)
FirstSessionId(senderId, t) == KeyPrefix \o senderId

\* `dingtalk:${senderId}:${now}`
NewSessionId(senderId, t) == KeyPrefix \o senderId \o <<":">> \o Dec(t)

\* elapsed > sessionTimeout
TimedOut_AtTimeout(elapsed, sessionTimeout) == elapsed >= sessionTimeout
TimedOut(elapsed, sessionTimeout) == elapsed > sessionTimeout

\* userSessions.get(senderId)
MapGet(m, k) == IF k \in DOMAIN m THEN m[k] ELSE NoSession

\* userSessions.set(senderId, value)
MapSet_AllKeys(m, k, v) == [x \in DOMAIN m \cup {k} |-> v]
MapSet(m, k, v) == [x \in DOMAIN m \cup {k} |-> IF x = k THEN v ELSE m[x]]

\* getSessionKey(senderId, forceNew, sessionTimeout) when Date.now() reads t:
\* the map afterwards and the value returned
GetSessionKey(sessions, senderId, forceNew, sessionTimeout, t) ==
    LET existing == MapGet(sessions, senderId)
        rotated == [lastActivity |-> t, sessionId |-> NewSessionId(senderId, t)]
    IN  IF forceNew
        THEN [sessions |-> MapSet(sessions, senderId, rotated),
              sessionKey |-> rotated.sessionId, isNew |-> TRUE]
        ELSE IF existing # NoSession
        THEN IF TimedOut(t - existing.lastActivity, sessionTimeout)
             THEN [sessions |-> MapSet(sessions, senderId, rotated),
                   sessionKey |-> rotated.sessionId, isNew |-> TRUE]
             ELSE [sessions |-> MapSet(sessions, senderId,
                                   [lastActivity |-> t, sessionId |-> existing.sessionId]),
                   sessionKey |-> existing.sessionId, isNew |-> FALSE]
        ELSE [sessions |-> MapSet(sessions, senderId,
                              [lastActivity |-> t, sessionId |-> FirstSessionId(senderId, t)]),
              sessionKey |-> FirstSessionId(senderId, t), isNew |-> FALSE]

----------------------------------------------------------------------------
(* Reset commands *)

\* the characters of the three Chinese phrases, named by code point
U65B0 == "U+65B0"
U4F1A == "U+4F1A"
U8BDD == "U+8BDD"
U91CD == "U+91CD"
U5F00 == "U+5F00"
U59CB == "U+59CB"
U6E05 == "U+6E05"
U7A7A == "U+7A7A"
U5BF9 == "U+5BF9"

\* '/new', '/reset', '/clear', '新会话', '重新开始', '清空对话'
NEW_SESSION_COMMANDS ==
    << <<"/", "n", "e", "w">>,
       <<"/", "r", "e", "s", "e", "t">>,
       <<"/", "c", "l", "e", "a", "r">>,
       <<U65B0, U4F1A, U8BDD>>,
       <<U91CD, U65B0, U5F00, U59CB>>,
       <<U6E05, U7A7A, U5BF9, U8BDD>> >>

UpperChars == <<"A", "B", "C", "D", "E", "F", "G", "H", "I", "J", "K", "L", "M",
                "N", "O", "P", "Q", "R", "S", "T", "U", "V", "W", "X", "Y", "Z">>
LowerChars == <<"a", "b", "c", "d", "e", "f", "g", "h", "i", "j", "k", "l", "m",
                "n", "o", "p", "q", "r", "s", "t", "u", "v", "w", "x", "y", "z">>

\* the white space String.prototype.trim removes, as far as the inputs use it
WhiteSpace == {" ", "\t", "\n", "\r"}

LowerChar(c) ==
    IF \E i \in 1..26 : UpperChars[i] = c
    THEN LowerChars[CHOOSE i \in 1..26 : UpperChars[i] = c]
    ELSE c

\* s.toLowerCase()
ToLowerCase(s) == [i \in 1..Len(s) |-> LowerChar(s[i])]

RECURSIVE TrimStart(_)
TrimStart(s) ==
    IF s # <<>> /\ Head(s) \in WhiteSpace THEN TrimStart(Tail(s)) ELSE s

RECURSIVE TrimEnd(_)
TrimEnd(s) ==
    IF s # <<>> /\ s[Len(s)] \in WhiteSpace THEN TrimEnd(SubSeq(s, 1, Len(s) - 1)) ELSE s

\* s.trim()
Trim(s) == TrimEnd(TrimStart(s))

\* s.includes(sub)
Includes(s, sub) ==
    \E i \in 0..(Len(s) - Len(sub)) : SubSeq(s, i + 1, i + Len(sub)) = sub

\* isNewSessionCommand(text)
IsNewSessionCommand_Includes(t) ==
    LET trimmed == ToLowerCase(Trim(t))
    IN  \E i \in 1..Len(NEW_SESSION_COMMANDS) :
            Includes(trimmed, ToLowerCase(NEW_SESSION_COMMANDS[i]))
IsNewSessionCommand(t) ==
    LET trimmed == ToLowerCase(Trim(t))
    IN  \E i \in 1..Len(NEW_SESSION_COMMANDS) :
            trimmed = ToLowerCase(NEW_SESSION_COMMANDS[i])

----------------------------------------------------------------------------
(* Messages, credentials and the AI card *)

\* the acknowledgement of a reset command
AckText ==
    <<"U+2728", " ", "U+5DF2", "U+5F00", "U+542F", "U+65B0", "U+4F1A", "U+8BDD",
      "U+FF0C", "U+4E4B", "U+524D", "U+7684", "U+5BF9", "U+8BDD", "U+5DF2", "U+6E05",
      "U+7A7A", "U+3002">>

\* '（无响应）'
NoResponseText ==
    <<"U+FF08", "U+65E0", "U+54CD", "U+5E94", "U+FF09">>

\* `抱歉，处理请求时出错: ${err.message}`
ApologyPrefix ==
    <<"U+62B1", "U+6B49", "U+FF0C", "U+5904", "U+7406", "U+8BF7", "U+6C42", "U+65F6",
      "U+51FA", "U+9519", ":", " ">>

\* `\n\n⚠️ 响应中断: ${err.message}`
AnnotationPrefix ==
    <<"\n", "\n", "U+26A0", "U+FE0F", " ", "U+54CD", "U+5E94", "U+4E2D", "U+65AD", ":",
      " ">>

\* '[图片]'
PictureText ==
    <<"[", "U+56FE", "U+7247", "]">>

\* err.message of a failed axios request, of a failed gateway response and of a
\* failed read of the response body
ErrRequest == <<"E", "5", "0", "0">>
ErrGatewayPrefix == <<"G", "a", "t", "e", "w", "a", "y", " ", "e", "r", "r", "o", "r",
                      ":", " ">>
NoBodyText == <<"(", "n", "o", " ", "b", "o", "d", "y", ")">>
ErrRead == <<"t", "e", "r", "m", "i", "n", "a", "t", "e", "d">>

\* one character standing for a bare local image path in the response, and one for
\* the markdown image with a media id that replaces it
LocalImageRef == "<local image path>"
MediaRef == "<![](media id)>"

DefaultSessionTimeout == 1800000
TokenMargin == 60000
UpdateInterval == 300

NoToken == [none |-> TRUE]
NoCard == [none |-> TRUE]
NoMessage == [none |-> TRUE]
NoRun == [none |-> TRUE]

\* extractMessageContent(data).text for the kinds 'text' and 'picture'
ExtractMessageContent(data) ==
    IF data.msgtype = "text" THEN Trim(data.content) ELSE PictureText

\* /^[#*>-]|[*_`#\[\]]/.test(text) || text.includes('\n')
HasMarkdown(t) ==
    \/ t # <<>> /\ t[1] \in {"#", "*", ">", "-"}
    \/ \E i \in 1..Len(t) : t[i] \in {"*", "_", "U+0060", "#", "[", "]"}
    \/ \E i \in 1..Len(t) : t[i] = "\n"

\* sendMessage's choice and the body sendTextMessage or sendMarkdownMessage posts;
\* atUserId is <<>> for null and <<id>> for a mention
OutboundMessage(t, atUserId, useMarkdown) ==
    IF useMarkdown \/ HasMarkdown(t)
    THEN [msgtype |-> "markdown",
          body |-> IF atUserId # <<>> THEN t \o <<" ", "@">> \o atUserId[1] ELSE t,
          at |-> atUserId]
    ELSE [msgtype |-> "text", body |-> t, at |-> atUserId]

\* accessToken && accessTokenExpiry > now + 60_000
TokenIsFresh(tok, expiry, t) == tok # NoToken /\ expiry > t + TokenMargin

\* processLocalImages(content, oapiToken) on the response; uploaded says whether
\* the uploads succeed
ProcessLocalImages(content, oapiToken, uploaded) ==
    IF ~oapiToken THEN content
    ELSE [i \in 1..Len(content) |->
            IF content[i] = LocalImageRef /\ uploaded THEN MediaRef ELSE content[i]]

\* accumulated += chunk
Accumulate_Prepends(accumulated, chunk) == chunk \o accumulated
Accumulate(accumulated, chunk) == accumulated \o chunk

\* now - lastUpdateTime >= updateInterval
ShouldPush_Always(t, lastUpdateTime) == TRUE
ShouldPush(t, lastUpdateTime) == t - lastUpdateTime >= UpdateInterval

\* the frame of handleDingTalkMessage before a message is received; received (the
\* fragments the loop has taken), pushStarts (the streamAICard calls the loop has
\* made, with the clock reading that let them through) and tokenReturn (the last
\* return of getAccessToken: the clock it read and the expiry of what it returned)
\* are history
IdleFrame ==
    [pc |-> "idle", region |-> "none", ret |-> "none", data |-> NoMessage,
     text |-> <<>>, senderId |-> <<>>, isDirect |-> FALSE, forceNew |-> FALSE,
     sessionKey |-> <<>>, oapiToken |-> FALSE, cardToken |-> NoToken, card |-> NoCard,
     accumulated |-> <<>>, chunkCount |-> 0, lastUpdateTime |-> 0, loopNow |-> 0,
     pushContent |-> <<>>, pushFinal |-> FALSE, outbox |-> NoMessage,
     outcome |-> "none", error |-> <<>>,
     received |-> <<>>, pushStarts |-> <<>>, tokenReturn |-> NoToken]

\* handleDingTalkMessage returns
Returned(f) == [f EXCEPT !.pc = "done", !.outcome = "returned"]

\* handleDingTalkMessage throws to the callback listener
Threw(f, msg) == [f EXCEPT !.pc = "done", !.outcome = "threw", !.error = msg]

\* if (!card.inputingStarted)
NeedsInputing_Always(card) == TRUE
NeedsInputing(card) == ~card.inputingStarted

\* a call of streamAICard(card, content, finished) is entered
StartStream(f, content, finished, ret) ==
    [f EXCEPT !.pc = IF NeedsInputing(f.card) THEN "inputing" ELSE "streaming",
              !.ret = ret, !.pushContent = content, !.pushFinal = finished]

\* a call of sendMessage(config, sessionWebhook, text, options) is entered
StartSend(f, t, useMarkdown) ==
    [f EXCEPT !.pc = "send_token",
              !.outbox = OutboundMessage(t, IF f.isDirect THEN <<>> ELSE <<f.senderId>>,
                                         useMarkdown)]

\* the catch block of the card mode: annotate, then finishAICard
CardCatch_StreamsNotFinal(f, msg) ==
    LET acc == f.accumulated \o AnnotationPrefix \o msg
    IN  StartStream([f EXCEPT !.accumulated = acc, !.region = "card_catch",
                              !.error = msg], acc, FALSE, "finish")
CardCatch(f, msg) ==
    LET acc == f.accumulated \o AnnotationPrefix \o msg
    IN  StartStream([f EXCEPT !.accumulated = acc, !.region = "card_catch",
                              !.error = msg], acc, TRUE, "finish")

\* the catch block of the plain mode: send the apology
PlainCatch(f, msg) ==
    StartSend([f EXCEPT !.region = "plain_catch", !.error = msg],
              ApologyPrefix \o msg, FALSE)

\* an error is thrown inside the handler: the enclosing try decides
Raise(f, msg) ==
    CASE f.region = "card_try" -> CardCatch(f, msg)
      [] f.region = "card_catch" -> Returned([f EXCEPT !.error = msg])
      [] f.region = "plain_try" -> PlainCatch(f, msg)
      [] OTHER -> Threw(f, msg)

\* the for-await loop over streamFromGateway is entered, with or without a card
BeginGateway_StartsThrottled(f, card) ==
    [f EXCEPT !.pc = "gw_fetch", !.card = card,
              !.region = IF card # NoCard THEN "card_try" ELSE "plain_try",
              !.accumulated = <<>>, !.lastUpdateTime = 1000, !.chunkCount = 0]
BeginGateway(f, card) ==
    [f EXCEPT !.pc = "gw_fetch", !.card = card,
              !.region = IF card # NoCard THEN "card_try" ELSE "plain_try",
              !.accumulated = <<>>, !.lastUpdateTime = 0, !.chunkCount = 0]

\* after getSessionKey on the normal path: the media prompt and the oapi token
AfterSession(f, enableMediaUpload) ==
    [f EXCEPT !.pc = IF enableMediaUpload THEN "oapi" ELSE "card_token"]

\* sendMessage has returned
AfterSendOk_FallsThrough(f) ==
    IF f.region = "ack" THEN [f EXCEPT !.pc = "card_token"] ELSE Returned(f)
AfterSendOk(f) == Returned(f)

\* the streaming PUT of streamAICard has answered
AfterStreaming_SwallowsFailure(f, ok) ==
    IF f.ret = "loop"
    THEN [f EXCEPT !.pc = "gw_read", !.lastUpdateTime = f.loopNow]
    ELSE [f EXCEPT !.pc = "finished"]
AfterStreaming(f, ok) ==
    IF ~ok THEN Raise(f, ErrRequest)
    ELSE IF f.ret = "loop"
    THEN [f EXCEPT !.pc = "gw_read", !.lastUpdateTime = f.loopNow]
    ELSE [f EXCEPT !.pc = "finished"]

\* the INPUTING PUT of streamAICard has answered
AfterInputing_MarksStarted(f, ok) ==
    IF ~ok THEN Raise([f EXCEPT !.card.inputingStarted = TRUE], ErrRequest)
    ELSE [f EXCEPT !.pc = "streaming", !.card.inputingStarted = TRUE]
AfterInputing(f, ok) ==
    IF ~ok THEN Raise(f, ErrRequest)
    ELSE [f EXCEPT !.pc = "streaming", !.card.inputingStarted = TRUE]

\* the FINISHED PUT of finishAICard has answered: a failure is logged and swallowed
AfterFinished_Rethrows(f, ok) == IF ok THEN Returned(f) ELSE Raise(f, ErrRequest)
AfterFinished(f, ok) == Returned(f)

\* if (!response.ok || !response.body)
ResponseFails(r) == ~r.ok \/ ~r.hasBody

\* `Gateway error: ${response.status} - ${errText}`
GatewayErrorMessage(r) ==
    ErrGatewayPrefix \o Dec(r.status) \o <<" ", "-", " ">>
        \o (IF r.hasBody THEN r.text ELSE NoBodyText)

\* streamFromGateway after fetch has answered with r
AfterFetch_IgnoresStatus(f, r) == [f EXCEPT !.pc = "gw_read"]
AfterFetch(f, r) ==
    IF ResponseFails(r) THEN Raise(f, GatewayErrorMessage(r))
    ELSE [f EXCEPT !.pc = "gw_read"]

\* one remote call, as the log keeps it
Call(op, ok, content, final) == [op |-> op, ok |-> ok, content |-> content, final |-> final]

----------------------------------------------------------------------------
(* The session registry under calls from any number of handled messages.   *)
(* getSessionKey has no await: each call runs to completion, so calls of   *)
(* concurrently handled messages interleave as whole calls.                *)

MaxTime == 2
MaxTimeout == 1

SenderIds == {<<"a">>, <<"b">>}
Timeouts == 0..MaxTimeout

\* no message has been received, no token is cached
HandlerAtRest ==
    /\ dingtalkConfig = [enableMediaUpload |-> TRUE]
    /\ accessToken = NoToken
    /\ accessTokenExpiry = 0
    /\ h = IdleFrame
    /\ calls = <<>>
    /\ handled = 0

\* no response is being read, no content is being post-processed
IoAtRest ==
    /\ gw = NoRun
    /\ media = NoRun
    /\ acct = NoRun
    /\ tk = NoRun

SessionInit ==
    /\ now = 0
    /\ userSessions = <<>>
    /\ issued = [s \in SenderIds |-> {}]
    /\ lastCall = NoCall
    /\ text = <<>>
    /\ cmdResult = <<>>
    /\ HandlerAtRest
    /\ IoAtRest

\* time passes between calls
Tick ==
    /\ now < MaxTime
    /\ now' = now + 1
    /\ UNCHANGED <<userSessions, issued, lastCall, cmdVars, ioVars, hVars>>

\* one getSessionKey call
Resolve(senderId, forceNew, sessionTimeout) ==
    LET r == GetSessionKey(userSessions, senderId, forceNew, sessionTimeout, now)
        existing == MapGet(userSessions, senderId)
    IN  /\ userSessions' = r.sessions
        /\ issued' = [issued EXCEPT ![senderId] = @ \cup {r.sessionKey}]
        /\ lastCall' = [senderId |-> senderId, forceNew |-> forceNew,
                        sessionTimeout |-> sessionTimeout, at |-> now,
                        existed |-> existing # NoSession,
                        prev |-> existing,
                        wasIssued |-> r.sessionKey \in issued[senderId],
                        sessionKey |-> r.sessionKey, isNew |-> r.isNew]
        /\ UNCHANGED <<now, cmdVars, ioVars, hVars>>

SessionNext ==
    \/ Tick
    \/ \E s \in SenderIds, f \in BOOLEAN, T \in Timeouts : Resolve(s, f, T)

SessionSpec == SessionInit /\ [][SessionNext]_vars

Called == lastCall # NoCall
Elapsed == lastCall.at - lastCall.prev.lastActivity
BaseKey(senderId) == KeyPrefix \o senderId
RotatedKey(senderId, t) == KeyPrefix \o senderId \o <<":">> \o Dec(t)

\* C1 as stated: the first getSessionKey call for a sender returns isNew = FALSE and
\* the key 'dingtalk:<senderId>' without a timestamp suffix, whatever forceNew is.
C1_FirstCallReturnsBaseKey ==
    (Called /\ ~lastCall.existed) =>
        (~lastCall.isNew /\ lastCall.sessionKey = BaseKey(lastCall.senderId))

\* C1 amended: the first getSessionKey call for a sender made with forceNew = FALSE
\* returns isNew = FALSE and the key 'dingtalk:<senderId>' without a timestamp suffix;
\* a later call within the timeout with forceNew = FALSE returns the stored key with
\* isNew = FALSE. (A first call with forceNew = TRUE returns a timestamped key and
\* isNew = TRUE.)
C1_FirstUnforcedCallReturnsBaseKey ==
    Called =>
        /\ (~lastCall.existed /\ ~lastCall.forceNew) =>
              (~lastCall.isNew /\ lastCall.sessionKey = BaseKey(lastCall.senderId))
        /\ (~lastCall.existed /\ lastCall.forceNew) =>
              (lastCall.isNew
                 /\ lastCall.sessionKey = RotatedKey(lastCall.senderId, lastCall.at))
        /\ (lastCall.existed /\ ~lastCall.forceNew
              /\ Elapsed <= lastCall.sessionTimeout) =>
              (~lastCall.isNew /\ lastCall.sessionKey = lastCall.prev.sessionId)

\* a second call, one tick after an unforced first call and within the timeout
C1_Witness ==
    /\ Called /\ lastCall.existed /\ ~lastCall.forceNew
    /\ lastCall.prev.sessionId = BaseKey(lastCall.senderId)
    /\ Elapsed = 1 /\ lastCall.sessionTimeout = 1
    /\ lastCall.sessionKey = BaseKey(lastCall.senderId)

\* C2: a call with forceNew = FALSE on an existing session returns a rotated key
\* (isNew = TRUE) if and only if the gap since the last recorded activity is greater
\* than the timeout; at a gap equal to the timeout the existing key is kept.
C2_RotatesIffGapExceedsTimeout ==
    (Called /\ lastCall.existed /\ ~lastCall.forceNew) =>
        /\ lastCall.isNew <=> (Elapsed > lastCall.sessionTimeout)
        /\ lastCall.isNew =>
              lastCall.sessionKey = RotatedKey(lastCall.senderId, lastCall.at)
        /\ ~lastCall.isNew => lastCall.sessionKey = lastCall.prev.sessionId

\* the boundary: a gap of exactly the timeout, both positive
C2_Witness ==
    /\ Called /\ lastCall.existed /\ ~lastCall.forceNew
    /\ lastCall.sessionTimeout = 1 /\ Elapsed = 1
    /\ ~lastCall.isNew

\* the step is a getSessionKey call for s that resets: forced, or the timeout exceeded
IsResetStep(s) ==
    /\ lastCall' # lastCall
    /\ lastCall'.senderId = s
    /\ \/ lastCall'.forceNew
       \/ lastCall'.at - userSessions[s].lastActivity > lastCall'.sessionTimeout

\* C3: in every step, the stored key of a sender with a session changes exactly when
\* the step is a reset of that sender (forceNew, or elapsed time greater than the
\* timeout); every other step leaves the key unchanged.
C3_KeyChangesExactlyOnReset ==
    [][\A s \in DOMAIN userSessions :
          (userSessions'[s].sessionId # userSessions[s].sessionId) <=> IsResetStep(s)]_vars

\* C4: every reset (isNew = TRUE) returns a key that was not issued before for that
\* sender.
C4_ResetKeyNeverIssuedBefore ==
    (Called /\ lastCall.isNew) => ~lastCall.wasIssued

\* C5: a getSessionKey call for one sender leaves the stored session (key and
\* lastActivity) of every other sender as it was.
C5_OtherSendersUnchanged ==
    [][\A s \in SenderIds :
          (lastCall' = NoCall \/ s # lastCall'.senderId) =>
              MapGet(userSessions', s) = MapGet(userSessions, s)]_vars

\* a reset of one sender while the other sender holds an older session
C5_Witness ==
    /\ Called /\ lastCall.isNew
    /\ DOMAIN userSessions = SenderIds
    /\ \E s \in SenderIds :
          /\ s # lastCall.senderId
          /\ userSessions[s].lastActivity < lastCall.at
          /\ userSessions[s].sessionId = BaseKey(s)

----------------------------------------------------------------------------
(* isNewSessionCommand over message texts: a phrase or a near miss, in any *)
(* letter case, with up to MaxPad characters before and after it.          *)

MaxPad == 1

PadChars == {" ", "\n", "x", "/", U8BDD}

\* every way of writing s with each letter in either case
RECURSIVE CaseVariants(_)
CaseVariants(s) ==
    IF s = <<>> THEN {<<>>}
    ELSE LET c == Head(s)
             heads == IF \E i \in 1..26 : LowerChars[i] = c
                      THEN {c, UpperChars[CHOOSE i \in 1..26 : LowerChars[i] = c]}
                      ELSE {c}
         IN  {<<c1>> \o r : c1 \in heads, r \in CaseVariants(Tail(s))}

Pads == UNION {[1..n -> PadChars] : n \in 0..MaxPad}

NearMisses ==
    { <<>>, <<"/", "n", "e">>, <<"n", "e", "w">>, <<"/", "n", " ", "e", "w">>,
      <<"h", "i">>, <<U65B0, U4F1A>>, <<U65B0, " ", U4F1A, U8BDD>> }

CommandCores ==
    UNION {CaseVariants(NEW_SESSION_COMMANDS[i]) : i \in 1..Len(NEW_SESSION_COMMANDS)}
        \cup NearMisses

CommandTexts == {pre \o core \o post : pre \in Pads, core \in CommandCores, post \in Pads}

CommandInit ==
    /\ text \in CommandTexts
    /\ cmdResult = <<>>
    /\ now = 0
    /\ userSessions = <<>>
    /\ issued = [s \in SenderIds |-> {}]
    /\ lastCall = NoCall
    /\ HandlerAtRest
    /\ IoAtRest

CheckCommand ==
    /\ cmdResult = <<>>
    /\ cmdResult' = <<IsNewSessionCommand(text)>>
    /\ UNCHANGED <<text, sessVars, ioVars, hVars>>

CommandNext == CheckCommand

CommandSpec == CommandInit /\ [][CommandNext]_vars

\* text is white space, then a phrase in any letter case, then white space
IsPaddedPhrase(t) ==
    \E k \in 1..Len(NEW_SESSION_COMMANDS), i \in 0..Len(t) :
        LET cmd == NEW_SESSION_COMMANDS[k]
        IN  /\ i + Len(cmd) <= Len(t)
            /\ \A j \in 1..i : t[j] \in WhiteSpace
            /\ \A j \in 1..Len(cmd) : LowerChar(t[i + j]) = cmd[j]
            /\ \A j \in (i + Len(cmd) + 1)..Len(t) : t[j] \in WhiteSpace

\* C6: isNewSessionCommand(text) is TRUE if and only if the whole text, white space
\* at its ends and letter case apart, is one of the six phrases; a text that holds a
\* phrase next to any other character gives FALSE.
C6_ExactPhraseOnly ==
    cmdResult # <<>> => (cmdResult[1] <=> IsPaddedPhrase(text))

\* a phrase followed by another character: contains a phrase, is none
C6_Witness ==
    /\ cmdResult = <<FALSE>>
    /\ text = <<"/", "N", "e", "w", "x">>

----------------------------------------------------------------------------
(* handleDingTalkMessage: one message at a time, every remote call free to *)
(* succeed or fail, time free to pass at every await.                      *)

StartTime == 1000
TickMs == 300
MaxTicks == 1
MaxChunks == 2
MaxMessages == 1
ShortTimeout == 100

\* expireIn of the token endpoint's response, in seconds
ExpireIns == {30, 7200}

HandlerConfigs ==
    { [enableMediaUpload |-> TRUE],
      [enableMediaUpload |-> FALSE, sessionTimeout |-> ShortTimeout] }

MessageTexts == << <<" ", "/", "N", "e", "w">>, <<"h", "i">>, <<" ">> >>

\* inbound events: a reset command in a group, a question in a direct chat, a blank
\* text, and a picture in a group
HandlerMessages ==
    { [msgtype |-> "text", content |-> MessageTexts[1], senderId |-> <<"a">>,
       conversationType |-> "2"],
      [msgtype |-> "text", content |-> MessageTexts[2], senderId |-> <<"a">>,
       conversationType |-> "1"],
      [msgtype |-> "text", content |-> MessageTexts[3], senderId |-> <<"a">>,
       conversationType |-> "1"],
      [msgtype |-> "picture", content |-> <<>>, senderId |-> <<"b">>,
       conversationType |-> "2"] }

\* what fetch answers: a stream, an error status with a body text, and a success
\* status with no readable body
GatewayResponses ==
    { [ok |-> TRUE, hasBody |-> TRUE, status |-> 200, text |-> <<>>],
      [ok |-> FALSE, hasBody |-> TRUE, status |-> 500, text |-> <<"x">>],
      [ok |-> TRUE, hasBody |-> FALSE, status |-> 200, text |-> <<>>] }

\* the text fragments streamFromGateway yields: a word with a local image reference,
\* and a word
Fragments == { <<"o", LocalImageRef>>, <<"k">> }

\* the n-th fragment of a response: the two kinds alternate
StreamFragment(n) == IF n % 2 = 1 THEN <<"o", LocalImageRef>> ELSE <<"k">>

\* dingtalkConfig.sessionTimeout ?? 1800000
SessionTimeoutOf(config) ==
    IF "sessionTimeout" \in DOMAIN config THEN config.sessionTimeout
    ELSE DefaultSessionTimeout

Init ==
    /\ now = StartTime
    /\ userSessions = <<>>
    /\ issued = [s \in SenderIds |-> {}]
    /\ lastCall = NoCall
    /\ text = <<>>
    /\ cmdResult = <<>>
    /\ dingtalkConfig \in HandlerConfigs
    /\ accessToken = NoToken
    /\ accessTokenExpiry = 0
    /\ h = IdleFrame
    /\ calls = <<>>
    /\ handled = 0
    /\ IoAtRest

\* time passes while the handler awaits, or between messages. The clock is read by
\* getSessionKey (Receive), getAccessToken (SendToken, CardToken) and the throttle
\* (GwChunk); time that passes elsewhere shows at the next of these, so it is let
\* pass just before them.
Elapse ==
    /\ h.pc \in {"idle", "done", "send_token", "card_token", "gw_read"}
    /\ now < StartTime + MaxTicks * TickMs
    /\ now' = now + TickMs
    /\ UNCHANGED <<userSessions, issued, lastCall, cmdVars, ioVars, hVars>>

\* the callback listener calls handleDingTalkMessage: the code up to its first await
Receive(data) ==
    /\ h.pc \in {"idle", "done"}
    /\ handled < MaxMessages
    /\ handled' = handled + 1
    /\ calls' = <<>>
    /\ LET content == ExtractMessageContent(data)
           f0 == [IdleFrame EXCEPT !.data = data, !.text = content,
                                   !.senderId = data.senderId,
                                   !.isDirect = (data.conversationType = "1")]
           forceNew == IsNewSessionCommand(content)
           existing == MapGet(userSessions, data.senderId)
           r == GetSessionKey(userSessions, data.senderId, forceNew,
                              SessionTimeoutOf(dingtalkConfig), now)
           f1 == [f0 EXCEPT !.forceNew = forceNew, !.sessionKey = r.sessionKey]
       IN  IF content = <<>>
           THEN /\ h' = Returned(f0)
                /\ UNCHANGED <<userSessions, issued, lastCall>>
           ELSE /\ userSessions' = r.sessions
                /\ issued' = [issued EXCEPT ![data.senderId] = @ \cup {r.sessionKey}]
                /\ lastCall' = [senderId |-> data.senderId, forceNew |-> forceNew,
                                sessionTimeout |-> SessionTimeoutOf(dingtalkConfig),
                                at |-> now, existed |-> existing # NoSession,
                                prev |-> existing,
                                wasIssued |-> r.sessionKey \in issued[data.senderId],
                                sessionKey |-> r.sessionKey, isNew |-> r.isNew]
                /\ h' = IF forceNew
                        THEN StartSend([f1 EXCEPT !.region = "ack"], AckText, FALSE)
                        ELSE AfterSession(f1, dingtalkConfig.enableMediaUpload)
    /\ UNCHANGED <<now, cmdVars, ioVars, dingtalkConfig, accessToken,
                   accessTokenExpiry>>

\* getAccessToken(config) when Date.now() reads t: the cached token, or the token
\* endpoint's answer
TokenOutcomes(t) ==
    IF TokenIsFresh(accessToken, accessTokenExpiry, t)
    THEN {[ok |-> TRUE, fetched |-> FALSE, token |-> accessToken,
           expiry |-> accessTokenExpiry]}
    ELSE {[ok |-> FALSE, fetched |-> TRUE, token |-> accessToken,
           expiry |-> accessTokenExpiry]}
         \cup {[ok |-> TRUE, fetched |-> TRUE, token |-> [expireIn |-> e],
                expiry |-> t + e * 1000] : e \in ExpireIns}

Logged(o) == IF o.fetched THEN Append(calls, Call("token", o.ok, <<>>, FALSE)) ELSE calls

\* getAccessToken returns o.token to the handler, having read the clock at t
GotToken(f, o, t) ==
    [f EXCEPT !.tokenReturn = [at |-> t, expiry |-> o.expiry, fetched |-> o.fetched]]

\* sendTextMessage / sendMarkdownMessage: await getAccessToken(config)
SendToken ==
    /\ h.pc = "send_token"
    /\ \E o \in TokenOutcomes(now) :
          /\ accessToken' = o.token
          /\ accessTokenExpiry' = o.expiry
          /\ calls' = Logged(o)
          /\ h' = IF o.ok THEN [GotToken(h, o, now) EXCEPT !.pc = "send_post"]
                  ELSE Raise(h, ErrRequest)
    /\ UNCHANGED <<sessVars, cmdVars, ioVars, dingtalkConfig, handled>>

\* sendTextMessage / sendMarkdownMessage: await axios.post(sessionWebhook, body)
SendPost ==
    /\ h.pc = "send_post"
    /\ \E ok \in BOOLEAN :
          /\ calls' = Append(calls, Call("webhook", ok, h.outbox.body, FALSE))
          /\ h' = IF ok THEN AfterSendOk(h) ELSE Raise(h, ErrRequest)
    /\ UNCHANGED <<sessVars, cmdVars, ioVars, dingtalkConfig, accessToken,
                   accessTokenExpiry, handled>>

\* await getOapiAccessToken(dingtalkConfig): a token, or null
Oapi ==
    /\ h.pc = "oapi"
    /\ \E ok \in BOOLEAN :
          /\ calls' = Append(calls, Call("oapi", ok, <<>>, FALSE))
          /\ h' = [h EXCEPT !.pc = "card_token", !.oapiToken = ok]
    /\ UNCHANGED <<sessVars, cmdVars, ioVars, dingtalkConfig, accessToken,
                   accessTokenExpiry, handled>>

\* createAICard: await getAccessToken(config)
CardToken ==
    /\ h.pc = "card_token"
    /\ \E o \in TokenOutcomes(now) :
          /\ accessToken' = o.token
          /\ accessTokenExpiry' = o.expiry
          /\ calls' = Logged(o)
          /\ h' = IF o.ok
                  THEN [GotToken(h, o, now) EXCEPT !.pc = "card_instantiate",
                                                   !.cardToken = o.token]
                  ELSE BeginGateway(h, NoCard)
    /\ UNCHANGED <<sessVars, cmdVars, ioVars, dingtalkConfig, handled>>

\* createAICard: POST /v1.0/card/instances
CardInstantiate ==
    /\ h.pc = "card_instantiate"
    /\ \E ok \in BOOLEAN :
          /\ calls' = Append(calls, Call("instantiate", ok, <<>>, FALSE))
          /\ h' = IF ok THEN [h EXCEPT !.pc = "card_deliver"] ELSE BeginGateway(h, NoCard)
    /\ UNCHANGED <<sessVars, cmdVars, ioVars, dingtalkConfig, accessToken,
                   accessTokenExpiry, handled>>

\* createAICard: POST /v1.0/card/instances/deliver, then the card is returned
CardDeliver ==
    /\ h.pc = "card_deliver"
    /\ \E ok \in BOOLEAN :
          /\ calls' = Append(calls, Call("deliver", ok, <<>>, FALSE))
          /\ h' = IF ok
                  THEN BeginGateway(h, [accessToken |-> h.cardToken,
                                        inputingStarted |-> FALSE])
                  ELSE BeginGateway(h, NoCard)
    /\ UNCHANGED <<sessVars, cmdVars, ioVars, dingtalkConfig, accessToken,
                   accessTokenExpiry, handled>>

\* streamFromGateway: await fetch(gatewayUrl), and the test of response.ok and body
GwFetch ==
    /\ h.pc = "gw_fetch"
    /\ \E r \in GatewayResponses :
          /\ calls' = Append(calls, Call("gateway", ~ResponseFails(r), <<>>, FALSE))
          /\ h' = AfterFetch(h, r)
    /\ UNCHANGED <<sessVars, cmdVars, ioVars, dingtalkConfig, accessToken,
                   accessTokenExpiry, handled>>

\* streamFromGateway yields a fragment: one turn of the for-await loop
GwChunk(chunk) ==
    /\ h.pc = "gw_read"
    /\ h.chunkCount < MaxChunks
    /\ chunk = StreamFragment(h.chunkCount + 1)
    /\ LET acc == Accumulate(h.accumulated, chunk)
           f == [h EXCEPT !.accumulated = acc, !.chunkCount = @ + 1,
                          !.received = Append(@, chunk)]
       IN  h' = IF h.card # NoCard /\ ShouldPush(now, h.lastUpdateTime)
                THEN StartStream([f EXCEPT !.loopNow = now,
                                           !.pushStarts = Append(@, [at |-> now,
                                                                     content |-> acc,
                                                                     count |-> h.chunkCount + 1])],
                                 acc, FALSE, "loop")
                ELSE f
    /\ UNCHANGED <<sessVars, cmdVars, ioVars, dingtalkConfig, accessToken,
                   accessTokenExpiry, calls, handled>>

\* streamFromGateway ends: the body is exhausted or 'data: [DONE]' was read
GwEnd ==
    /\ h.pc = "gw_read"
    /\ h' = IF h.card # NoCard THEN [h EXCEPT !.pc = "post_process"]
            ELSE StartSend(h, IF h.accumulated # <<>> THEN h.accumulated
                              ELSE NoResponseText, TRUE)
    /\ UNCHANGED <<sessVars, cmdVars, ioVars, dingtalkConfig, accessToken,
                   accessTokenExpiry, calls, handled>>

\* streamFromGateway throws: reader.read() fails in mid-stream
GwError ==
    /\ h.pc = "gw_read"
    /\ h' = Raise(h, ErrRead)
    /\ UNCHANGED <<sessVars, cmdVars, ioVars, dingtalkConfig, accessToken,
                   accessTokenExpiry, calls, handled>>

\* processLocalImages uploads: a token is there and the content names a local image
Uploads(content, oapiToken) ==
    oapiToken /\ \E i \in 1..Len(content) : content[i] = LocalImageRef

\* accumulated = await processLocalImages(...); then finishAICard is entered
PostProcess ==
    /\ h.pc = "post_process"
    /\ \E uploaded \in BOOLEAN :
          LET acc == ProcessLocalImages(h.accumulated, h.oapiToken, uploaded)
          IN  /\ h' = StartStream([h EXCEPT !.accumulated = acc], acc, TRUE, "finish")
              /\ calls' = IF Uploads(h.accumulated, h.oapiToken)
                          THEN Append(calls, Call("upload", uploaded, <<>>, FALSE))
                          ELSE calls
    /\ UNCHANGED <<sessVars, cmdVars, ioVars, dingtalkConfig, accessToken,
                   accessTokenExpiry, handled>>

\* streamAICard: PUT /v1.0/card/instances with flowStatus INPUTING
Inputing ==
    /\ h.pc = "inputing"
    /\ \E ok \in BOOLEAN :
          /\ calls' = Append(calls, Call("inputing", ok, <<>>, FALSE))
          /\ h' = AfterInputing(h, ok)
    /\ UNCHANGED <<sessVars, cmdVars, ioVars, dingtalkConfig, accessToken,
                   accessTokenExpiry, handled>>

\* streamAICard: PUT /v1.0/card/streaming with the content and isFinalize
Streaming ==
    /\ h.pc = "streaming"
    /\ \E ok \in BOOLEAN :
          /\ calls' = Append(calls, Call("streaming", ok, h.pushContent, h.pushFinal))
          /\ h' = AfterStreaming(h, ok)
    /\ UNCHANGED <<sessVars, cmdVars, ioVars, dingtalkConfig, accessToken,
                   accessTokenExpiry, handled>>

\* finishAICard: PUT /v1.0/card/instances with flowStatus FINISHED; a failure is
\* logged and swallowed
Finished ==
    /\ h.pc = "finished"
    /\ \E ok \in BOOLEAN :
          /\ calls' = Append(calls, Call("finished", ok, h.pushContent, FALSE))
          /\ h' = AfterFinished(h, ok)
    /\ UNCHANGED <<sessVars, cmdVars, ioVars, dingtalkConfig, accessToken,
                   accessTokenExpiry, handled>>

Next ==
    \/ Elapse
    \/ \E data \in HandlerMessages : Receive(data)
    \/ SendToken
    \/ SendPost
    \/ Oapi
    \/ CardToken
    \/ CardInstantiate
    \/ CardDeliver
    \/ GwFetch
    \/ \E chunk \in Fragments : GwChunk(chunk)
    \/ GwEnd
    \/ GwError
    \/ PostProcess
    \/ Inputing
    \/ Streaming
    \/ Finished

Spec == Init /\ [][Next]_vars

CallIdx(op) == {i \in 1..Len(calls) : calls[i].op = op}
Count(op) == Cardinality(CallIdx(op))
CardOps == {"instantiate", "deliver", "inputing", "streaming", "finished"}

\* the message being handled is a text whose content is a reset phrase
HandlingReset ==
    /\ h.pc # "idle"
    /\ h.data.msgtype = "text"
    /\ IsPaddedPhrase(h.data.content)

\* the sender's stored session is the one a reset at lastCall.at makes
SessionRotated ==
    /\ Called /\ lastCall.senderId = h.senderId /\ lastCall.forceNew /\ lastCall.isNew
    /\ MapGet(userSessions, h.senderId) =
          [lastActivity |-> lastCall.at,
           sessionId |-> RotatedKey(h.senderId, lastCall.at)]

TokenRequestFailed == \E i \in CallIdx("token") : ~calls[i].ok

\* C7 as stated: when the text is a reset command the handler rotates the sender's
\* session, has sent exactly one acknowledgement when it ends, and calls neither the
\* completion endpoint nor the card API.
C7_ResetSendsExactlyOneAck ==
    HandlingReset =>
        /\ SessionRotated
        /\ Count("gateway") = 0
        /\ \A i \in 1..Len(calls) : calls[i].op \notin CardOps
        /\ h.pc = "done" => Count("webhook") = 1

\* C7 amended: when the text is a reset command the handler rotates the sender's
\* session, calls neither the completion endpoint nor the card API, and sends at most
\* one outbound message, the acknowledgement: exactly one when the access token is
\* obtained, none when the token request fails.
C7_ResetAcknowledgedWithoutBackend ==
    HandlingReset =>
        /\ SessionRotated
        /\ Count("gateway") = 0
        /\ \A i \in 1..Len(calls) : calls[i].op \notin CardOps
        /\ Count("webhook") <= 1
        /\ \A i \in CallIdx("webhook") : calls[i].content = AckText
        /\ h.pc = "done" => (Count("webhook") = 1 <=> ~TokenRequestFailed)

\* a reset command handled to its end, the acknowledgement delivered
C7_Witness ==
    /\ HandlingReset /\ h.pc = "done" /\ h.outcome = "returned"
    /\ \E i \in CallIdx("webhook") : calls[i].ok /\ calls[i].content = AckText

InputingOk == {j \in CallIdx("inputing") : calls[j].ok}

\* C8 as stated: every content push of a card comes after exactly one INPUTING push,
\* and the INPUTING pushes issued for the card are exactly one in all.
C8_ExactlyOneInputingPush ==
    h.card # NoCard =>
        /\ \A i \in CallIdx("streaming") :
              Cardinality({j \in CallIdx("inputing") : j < i}) = 1
        /\ Count("inputing") <= 1
        /\ h.pc = "done" => Count("inputing") = 1

\* C8 amended: every content push of a card comes after exactly one successful
\* INPUTING push; at most one INPUTING push succeeds and none is issued after it; a
\* failed INPUTING push is followed by no content push but by the next call's INPUTING
\* push; every card gets at least one INPUTING push.
C8_OneSuccessfulInputingPush ==
    h.card # NoCard =>
        /\ \A i \in CallIdx("streaming") : Cardinality({j \in InputingOk : j < i}) = 1
        /\ Cardinality(InputingOk) <= 1
        /\ \A j \in InputingOk, k \in CallIdx("inputing") : k <= j
        /\ \A j \in CallIdx("inputing") \ InputingOk :
              j < Len(calls) => calls[j + 1].op = "inputing"
        /\ ~(\E j \in CallIdx("inputing") : ~calls[j].ok) => Count("inputing") <= 1
        /\ h.pc = "done" => Count("inputing") >= 1

\* the INPUTING push failed in the loop, the recovery's finishAICard pushed it again
\* and then the content
C8_Witness ==
    /\ h.card # NoCard /\ h.pc = "done"
    /\ Count("inputing") = 2
    /\ \E i \in CallIdx("streaming") : calls[i].ok /\ calls[i].final

\* C9: every FINISHED write comes directly after a streaming push with
\* isFinalize = TRUE of the same content that succeeded, whatever the content, the
\* empty string included; finishAICard is at its FINISHED write only then.
C9_FinalPushBeforeFinished ==
    /\ \A i \in CallIdx("finished") :
          /\ i > 1
          /\ calls[i - 1].op = "streaming" /\ calls[i - 1].final /\ calls[i - 1].ok
          /\ calls[i - 1].content = calls[i].content
    /\ h.pc = "finished" =>
          /\ calls # <<>>
          /\ calls[Len(calls)].op = "streaming"
          /\ calls[Len(calls)].final /\ calls[Len(calls)].ok

\* a FINISHED write of the empty string
C9_Witness ==
    \E i \in CallIdx("finished") : calls[i].content = <<>> /\ calls[i - 1].content = <<>>

\* the place of a card call in the order instantiate, deliver, content pushes, final
\* push; 0 for the other calls
Rank(c) ==
    CASE c.op = "instantiate" -> 1
      [] c.op = "deliver" -> 2
      [] c.op = "streaming" /\ ~c.final -> 3
      [] c.op = "streaming" /\ c.final -> 4
      [] OTHER -> 0

\* C10: within one message the card calls come in the order instantiate, deliver,
\* non-final content pushes, final pushes: one instantiate, then one deliver, pushes
\* only after both succeeded, and no non-final push after a final push was attempted.
C10_CardCallsInOrder ==
    /\ \A i, j \in 1..Len(calls) :
          (i < j /\ Rank(calls[i]) > 0 /\ Rank(calls[j]) > 0) =>
              Rank(calls[i]) <= Rank(calls[j])
    /\ Count("instantiate") <= 1 /\ Count("deliver") <= 1
    /\ \A j \in CallIdx("deliver") :
          \E i \in CallIdx("instantiate") : i < j /\ calls[i].ok
    /\ \A k \in CallIdx("streaming") :
          \E j \in CallIdx("deliver") : j < k /\ calls[j].ok

\* the error-recovery path: a non-final push, a final push that failed, and the
\* recovery's final push
C10_Witness ==
    \E i, j, k \in CallIdx("streaming") :
        /\ i < j /\ j < k
        /\ ~calls[i].final
        /\ calls[j].final /\ ~calls[j].ok
        /\ calls[k].final

FinalOk == {i \in CallIdx("streaming") : calls[i].final /\ calls[i].ok}
PushIdx == CallIdx("inputing") \cup CallIdx("streaming")
LastPush == CHOOSE i \in PushIdx : \A j \in PushIdx : j <= i

\* C11 as stated: for every card createAICard returned, when the handling of its
\* message has ended exactly one push with isFinalize = TRUE has succeeded, whatever
\* remote calls failed.
C11_FinalizedExactlyOnce ==
    (h.card # NoCard /\ h.pc = "done") => Cardinality(FinalOk) = 1

\* C11 amended: for every card at most one push with isFinalize = TRUE succeeds and
\* no push follows it; when the handling has ended exactly one has succeeded unless
\* the last push attempted for the card failed (the final push of the recovery path,
\* or the INPUTING push before it), and then none has; a final push is attempted at
\* most twice.
C11_FinalizedAtMostOnce ==
    h.card # NoCard =>
        /\ Cardinality(FinalOk) <= 1
        /\ \A i \in FinalOk, j \in PushIdx : j <= i
        /\ Cardinality({i \in CallIdx("streaming") : calls[i].final}) <= 2
        /\ h.pc = "done" =>
              /\ PushIdx # {}
              /\ Cardinality(FinalOk) = 1 <=> calls[LastPush].ok
              /\ Cardinality(FinalOk) = 0 => h.region = "card_catch"

\* the final push failed on the normal path and the recovery's final push succeeded
C11_Witness ==
    /\ h.card # NoCard /\ h.pc = "done"
    /\ Cardinality(FinalOk) = 1
    /\ \E i \in CallIdx("streaming") : calls[i].final /\ ~calls[i].ok
    /\ \E i \in CallIdx("finished") : ~calls[i].ok

\* C12: the streamAICard calls the loop makes while it consumes the stream are
\* started at least 300 ms apart, one after the other, by the clock readings that let
\* them through; the non-final content pushes issued are among these calls.
C12_ThrottledPushesSpaced ==
    /\ \A i \in 1..(Len(h.pushStarts) - 1) :
          h.pushStarts[i + 1].at - h.pushStarts[i].at >= 300
    /\ Cardinality({i \in CallIdx("streaming") : ~calls[i].final}) <= Len(h.pushStarts)
    /\ Len(h.pushStarts) <= h.chunkCount

\* two pushes of the loop, the second for a longer text than the first
C12_Witness ==
    /\ Len(h.pushStarts) = 2
    /\ Len(h.pushStarts[2].content) > Len(h.pushStarts[1].content)
    /\ Cardinality({i \in CallIdx("streaming") : ~calls[i].final /\ calls[i].ok}) = 2

RECURSIVE Flatten(_)
Flatten(ss) == IF ss = <<>> THEN <<>> ELSE Head(ss) \o Flatten(Tail(ss))

\* the stream was consumed to its end and finishAICard entered on the normal path
StreamEnded == h.card # NoCard /\ h.region = "card_try" /\ h.ret = "finish"

\* C13: in card mode the throttle drops neither the first nor the last update: the
\* first fragment received always starts a push of that fragment (the content push
\* follows the INPUTING push when that succeeds), and when the stream has ended the
\* push with isFinalize = TRUE of the complete text (after post-processing) is
\* started, whatever the clock read when the fragments came.
C13_FirstAndLastNeverThrottled ==
    /\ (h.card # NoCard /\ h.chunkCount >= 1) =>
          /\ h.pushStarts # <<>>
          /\ h.pushStarts[1].content = h.received[1]
          /\ \A i \in CallIdx("inputing") :
                ((\A j \in CallIdx("inputing") : i <= j) /\ calls[i].ok) =>
                    \/ /\ i = Len(calls) /\ h.pc = "streaming"
                       /\ ~h.pushFinal /\ h.pushContent = h.received[1]
                    \/ /\ i < Len(calls) /\ calls[i + 1].op = "streaming"
                       /\ ~calls[i + 1].final /\ calls[i + 1].content = h.received[1]
    /\ StreamEnded =>
          /\ h.pushFinal
          /\ h.pushContent \in
                {ProcessLocalImages(Flatten(h.received), h.oapiToken, u) : u \in BOOLEAN}
          /\ h.pc \in {"inputing", "streaming", "finished", "done"}
          /\ h.pc \in {"finished", "done"} =>
                \E i \in FinalOk : calls[i].content = h.pushContent

\* the second fragment came within the interval and was not pushed; the final push
\* carried both fragments
C13_Witness ==
    /\ StreamEnded /\ h.pc = "done"
    /\ h.chunkCount = 2 /\ Len(h.pushStarts) = 1
    /\ \E i \in FinalOk : Len(calls[i].content) = Len(Flatten(h.received))

GatewayFailed == \E i \in CallIdx("gateway") : ~calls[i].ok

\* 'Gateway error: 500 - x' and 'Gateway error: 200 - (no body)'
GatewayFailureMessages ==
    { <<"G", "a", "t", "e", "w", "a", "y", " ", "e", "r", "r", "o", "r", ":", " ",
        "5", "0", "0", " ", "-", " ", "x">>,
      <<"G", "a", "t", "e", "w", "a", "y", " ", "e", "r", "r", "o", "r", ":", " ",
        "2", "0", "0", " ", "-", " ", "(", "n", "o", " ", "b", "o", "d", "y", ")">> }

\* C17: when the completion endpoint's first response is a non-success status or has
\* no readable body, streamFromGateway throws before it yields: no fragment is
\* received, the accumulator is empty when the error is handled (the card's text is
\* the annotation alone, the plain reply the apology alone), and the error carries
\* the status code and the body text.
C17_FailedResponseYieldsNothing ==
    GatewayFailed =>
        /\ h.received = <<>> /\ h.chunkCount = 0 /\ h.pushStarts = <<>>
        /\ h.pc # "gw_read"
        /\ h.card # NoCard =>
              /\ h.region = "card_catch"
              /\ \E e \in GatewayFailureMessages : h.accumulated = AnnotationPrefix \o e
              /\ \A i \in CallIdx("streaming") :
                    calls[i].final /\ calls[i].content = h.accumulated
        /\ h.card = NoCard =>
              /\ h.region = "plain_catch"
              /\ h.accumulated = <<>>
              /\ \E e \in GatewayFailureMessages : h.outbox.body = ApologyPrefix \o e
              /\ \A i \in CallIdx("webhook") : calls[i].content = h.outbox.body

\* a success status with no readable body, in card mode: the card is finalized with
\* the annotation alone
C17_Witness ==
    /\ GatewayFailed /\ h.card # NoCard /\ h.pc = "done"
    /\ \E i \in FinalOk :
          calls[i].content = AnnotationPrefix \o
              <<"G", "a", "t", "e", "w", "a", "y", " ", "e", "r", "r", "o", "r", ":", " ",
                "2", "0", "0", " ", "-", " ", "(", "n", "o", " ", "b", "o", "d", "y", ")">>

----------------------------------------------------------------------------
(* streamFromGateway reading one response body: the body is a sequence of  *)
(* records, the reads cut it at any places, the consumer takes a fragment  *)
(* at each yield and goes on or abandons the iteration.                    *)

MaxRecords == 3

\* 'data: ' and '[DONE]'
DataPrefix == <<"d", "a", "t", "a", ":", " ">>
DoneText == <<"[", "D", "O", "N", "E", "]">>

\* the JSON text of an event, {"choices":[{"delta":{"content":"..."}}]}, in three
\* parts: what stands before the content's characters and after them are one
\* character each; and the text of an event whose delta has no content
JsonOpen == "{\"choices\":[{\"delta\":{\"content\":\""
JsonClose == "\"}}]}"
JsonNoContent == "{\"choices\":[{\"delta\":{}}]}"
ContentChars == {"a", "b", "c"}

\* line.startsWith(p)
StartsWith(s, p) == Len(s) >= Len(p) /\ SubSeq(s, 1, Len(p)) = p

\* s.split('\n')
RECURSIVE Split(_)
Split(s) ==
    IF \A i \in 1..Len(s) : s[i] # "\n" THEN <<s>>
    ELSE LET i == CHOOSE j \in 1..Len(s) :
                      s[j] = "\n" /\ \A k \in 1..(j - 1) : s[k] # "\n"
         IN  <<SubSeq(s, 1, i - 1)>> \o Split(SubSeq(s, i + 1, Len(s)))

\* JSON.parse(data) and chunk.choices?.[0]?.delta?.content: threw says that either
\* throws; content is <<>> when it is absent or ''
JsonParse(data) ==
    IF /\ Len(data) >= 2
       /\ data[1] = JsonOpen /\ data[Len(data)] = JsonClose
       /\ \A i \in 2..(Len(data) - 1) : data[i] \in ContentChars
    THEN [threw |-> FALSE, content |-> SubSeq(data, 2, Len(data) - 1)]
    ELSE IF data = <<JsonNoContent>>
    THEN [threw |-> FALSE, content |-> <<>>]
    ELSE [threw |-> TRUE, content |-> <<>>]

\* one turn of `for (const line of lines)`: continue, return, or yield content
LineOutcome_IgnoresDone(line) ==
    IF ~StartsWith(line, DataPrefix) THEN [do |-> "continue"]
    ELSE LET data == Trim(SubSeq(line, 7, Len(line)))
             chunk == JsonParse(data)
         IN  IF ~chunk.threw /\ chunk.content # <<>>
             THEN [do |-> "yield", content |-> chunk.content]
             ELSE [do |-> "continue"]
LineOutcome_MalformedEnds(line) ==
    IF ~StartsWith(line, DataPrefix) THEN [do |-> "continue"]
    ELSE LET data == Trim(SubSeq(line, 7, Len(line)))
             chunk == JsonParse(data)
         IN  IF data = DoneText \/ chunk.threw THEN [do |-> "return"]
             ELSE IF chunk.content # <<>>
             THEN [do |-> "yield", content |-> chunk.content]
             ELSE [do |-> "continue"]
LineOutcome(line) ==
    IF ~StartsWith(line, DataPrefix) THEN [do |-> "continue"]
    ELSE LET data == Trim(SubSeq(line, 7, Len(line)))
             chunk == JsonParse(data)
         IN  IF data = DoneText THEN [do |-> "return"]
             ELSE IF ~chunk.threw /\ chunk.content # <<>>
             THEN [do |-> "yield", content |-> chunk.content]
             ELSE [do |-> "continue"]

\* buffer += decoder.decode(value, { stream: true })
Decode_DropsBuffer(buffer, value) == value
Decode(buffer, value) == buffer \o value

\* the records a response body is made of: kind and content say what the record is,
\* text is how it is written (the first event with the blank line that ends an event
\* of a server-sent stream, the second with CR LF line ends)
Records ==
    { [kind |-> "event", content |-> <<"a">>,
       text |-> DataPrefix \o <<JsonOpen, "a", JsonClose, "\n", "\n">>],
      [kind |-> "event", content |-> <<"b", "c">>,
       text |-> DataPrefix \o <<JsonOpen, "b", "c", JsonClose, "\r", "\n">>],
      [kind |-> "empty", content |-> <<>>,
       text |-> DataPrefix \o <<JsonOpen, JsonClose, "\n">>],
      [kind |-> "empty", content |-> <<>>,
       text |-> DataPrefix \o <<JsonNoContent, "\n">>],
      [kind |-> "malformed", content |-> <<>>,
       text |-> DataPrefix \o <<JsonOpen, "a", "\n">>],
      [kind |-> "done", content |-> <<>>, text |-> DataPrefix \o DoneText \o <<"\n">>],
      [kind |-> "cutoff", content |-> <<"c">>,
       text |-> DataPrefix \o <<JsonOpen, "c", JsonClose>>] }

\* the bodies: up to MaxRecords records; a record that lacks its line end can only
\* be the last
RecordSeqs ==
    { rs \in UNION {[1..n -> Records] : n \in 0..MaxRecords} :
        \A i \in 1..(Len(rs) - 1) : rs[i].kind # "cutoff" }

RECURSIVE BodyOf(_)
BodyOf(rs) == IF rs = <<>> THEN <<>> ELSE Head(rs).text \o BodyOf(Tail(rs))

\* the for loop over lines is left when no line is left
AfterLine(lines) == IF lines = <<>> THEN "read" ELSE "lines"

\* the generator after fetch: reader taken, buffer = ''. records, yielded, sawDone,
\* readFailed and cutInside (a read ended inside a record) are history; cancelled
\* says whether reader.cancel() was called
GatewayRun(rs) ==
    [pc |-> "read", records |-> rs, rest |-> BodyOf(rs), buffer |-> <<>>,
     lines |-> <<>>, yielded |-> <<>>, sawDone |-> FALSE, readFailed |-> FALSE,
     cutInside |-> FALSE, cancelled |-> FALSE]

GatewayInit ==
    /\ gw \in {GatewayRun(rs) : rs \in RecordSeqs}
    /\ media = NoRun
    /\ acct = NoRun
    /\ tk = NoRun
    /\ now = 0
    /\ userSessions = <<>>
    /\ issued = [s \in SenderIds |-> {}]
    /\ lastCall = NoCall
    /\ text = <<>>
    /\ cmdResult = <<>>
    /\ HandlerAtRest

\* await reader.read() gives the next k characters of the body; buffer, split, pop
ReadChunk(k) ==
    /\ gw.pc = "read"
    /\ k \in 1..Len(gw.rest)
    /\ LET value == SubSeq(gw.rest, 1, k)
           parts == Split(Decode(gw.buffer, value))
           lines == SubSeq(parts, 1, Len(parts) - 1)
       IN  gw' = [gw EXCEPT !.rest = SubSeq(gw.rest, k + 1, Len(gw.rest)),
                            !.buffer = parts[Len(parts)],
                            !.lines = lines,
                            !.cutInside = @ \/ (parts[Len(parts)] # <<>>
                                                  /\ k < Len(gw.rest)),
                            !.pc = AfterLine(lines)]
    /\ UNCHANGED <<sessVars, cmdVars, hVars, media, acct, tk>>

\* await reader.read() gives done: break, and the generator returns
ReadDone ==
    /\ gw.pc = "read"
    /\ gw.rest = <<>>
    /\ gw' = [gw EXCEPT !.pc = "returned"]
    /\ UNCHANGED <<sessVars, cmdVars, hVars, media, acct, tk>>

\* await reader.read() rejects: the generator throws
ReadError ==
    /\ gw.pc = "read"
    /\ gw' = [gw EXCEPT !.pc = "threw", !.readFailed = TRUE]
    /\ UNCHANGED <<sessVars, cmdVars, hVars, media, acct, tk>>

\* one turn of the for loop over lines
NextLine ==
    /\ gw.pc = "lines"
    /\ LET o == LineOutcome(Head(gw.lines))
           left == Tail(gw.lines)
       IN  gw' = CASE o.do = "continue" ->
                        [gw EXCEPT !.lines = left, !.pc = AfterLine(left)]
                   [] o.do = "return" ->
                        [gw EXCEPT !.lines = left, !.pc = "returned", !.sawDone = TRUE]
                   [] o.do = "yield" ->
                        [gw EXCEPT !.lines = left, !.pc = "suspended",
                                   !.yielded = Append(@, o.content)]
    /\ UNCHANGED <<sessVars, cmdVars, hVars, media, acct, tk>>

\* the consumer asks for the next fragment: the generator goes on after its yield
Resume ==
    /\ gw.pc = "suspended"
    /\ gw' = [gw EXCEPT !.pc = AfterLine(gw.lines)]
    /\ UNCHANGED <<sessVars, cmdVars, hVars, media, acct, tk>>

\* the consumer leaves its for-await loop (its body threw): the generator's return()
\* completes it at the yield; streamFromGateway has no finally block
Abandon ==
    /\ gw.pc = "suspended"
    /\ gw' = [gw EXCEPT !.pc = "closed"]
    /\ UNCHANGED <<sessVars, cmdVars, hVars, media, acct, tk>>

GatewayNext ==
    \/ \E k \in 1..Len(gw.rest) : ReadChunk(k)
    \/ ReadDone
    \/ ReadError
    \/ NextLine
    \/ Resume
    \/ Abandon

GatewaySpec == GatewayInit /\ [][GatewayNext]_vars

\* the fragments of the events that stand before the first sentinel record
RECURSIVE EventsBeforeDone(_)
EventsBeforeDone(rs) ==
    IF rs = <<>> \/ Head(rs).kind = "done" THEN <<>>
    ELSE IF Head(rs).kind = "event"
    THEN <<Head(rs).content>> \o EventsBeforeDone(Tail(rs))
    ELSE EventsBeforeDone(Tail(rs))

\* what the for loop over lines yields until it returns or runs out of lines
RECURSIVE Drain(_)
Drain(lines) ==
    IF lines = <<>> THEN <<>>
    ELSE LET o == LineOutcome(Head(lines))
         IN  CASE o.do = "return" -> <<>>
               [] o.do = "yield" -> <<o.content>> \o Drain(Tail(lines))
               [] o.do = "continue" -> Drain(Tail(lines))

\* the fragments yielded when the whole body comes in one read
OneReadFragments(body) ==
    LET parts == Split(body) IN Drain(SubSeq(parts, 1, Len(parts) - 1))

IsPrefix(p, q) == Len(p) <= Len(q) /\ SubSeq(q, 1, Len(p)) = p

\* C14: whatever the places where the reads cut the body, the fragments yielded are
\* those yielded for the same body in one read, in the same order: at every moment a
\* prefix of them, at the return all of them; the generator throws only when a read
\* fails, never because of a cut.
C14_FragmentsIndependentOfCuts ==
    gw # NoRun =>
        /\ IsPrefix(gw.yielded, OneReadFragments(BodyOf(gw.records)))
        /\ gw.pc = "returned" => gw.yielded = OneReadFragments(BodyOf(gw.records))
        /\ gw.pc = "threw" => gw.readFailed

\* two events read to the end with a cut inside a record
C14_Witness ==
    /\ gw # NoRun /\ gw.pc = "returned" /\ gw.cutInside
    /\ gw.yielded = << <<"a">>, <<"b", "c">> >>

SentinelAt(rs) == {i \in 1..Len(rs) : rs[i].kind = "done"}

\* C15: once a 'data: [DONE]' record is seen the generator has returned, without an
\* error, and what it has yielded are the fragments of the events before the first
\* sentinel record: nothing of what follows the sentinel, in the same read (lines
\* left over) or in later reads (body left over), is ever yielded; a body that holds
\* a sentinel is ended by it and not by its exhaustion.
C15_SentinelEndsStream ==
    gw # NoRun =>
        /\ \A i \in SentinelAt(gw.records) :
              (\A k \in SentinelAt(gw.records) : i <= k) =>
                  Len(gw.yielded) <=
                      Cardinality({m \in 1..(i - 1) : gw.records[m].kind = "event"})
        /\ (gw.pc = "returned" /\ SentinelAt(gw.records) # {}) => gw.sawDone
        /\ gw.sawDone =>
              /\ gw.pc = "returned"
              /\ ~gw.readFailed
              /\ SentinelAt(gw.records) # {}
              /\ gw.yielded = EventsBeforeDone(gw.records)

\* an event, the sentinel and another event: the sentinel seen with the second event
\* still to be read
C15_Witness ==
    /\ gw # NoRun /\ gw.sawDone
    /\ Len(gw.records) = 3
    /\ gw.records[1].kind = "event" /\ gw.records[2].kind = "done"
    /\ gw.records[3].kind = "event"
    /\ gw.rest # <<>>
    /\ gw.yielded = <<gw.records[1].content>>

\* C16: a malformed payload ends nothing: when the generator returns it has yielded
\* the text of every event with a non-empty increment that stands before the
\* sentinel (or in the whole body when there is none), in order, whatever malformed
\* or empty records stand between them; no fragment yielded is the empty string.
C16_MalformedSkipped ==
    gw # NoRun =>
        /\ \A i \in 1..Len(gw.yielded) : gw.yielded[i] # <<>>
        /\ IsPrefix(gw.yielded, EventsBeforeDone(gw.records))
        /\ gw.pc = "returned" => gw.yielded = EventsBeforeDone(gw.records)
        /\ (\E i \in 1..Len(gw.records) : gw.records[i].kind = "malformed") =>
              (gw.pc = "threw" => gw.readFailed)

\* an event, a malformed record and another event, read to the end
C16_Witness ==
    /\ gw # NoRun /\ gw.pc = "returned"
    /\ Len(gw.records) = 3
    /\ gw.records[1].kind = "event" /\ gw.records[2].kind = "malformed"
    /\ gw.records[3].kind = "event"
    /\ gw.yielded = <<gw.records[1].content, gw.records[3].content>>

\* the iteration has ended with a part of the body unread
EndedEarly == gw # NoRun /\ gw.pc \in {"closed", "returned"} /\ gw.rest # <<>>

\* C18: whenever the iteration ends before the body is exhausted (the consumer
\* abandons it at a yield, or the sentinel's early return), the generator has
\* cancelled the response's reader.
C18_ReaderReleasedOnAbandon ==
    EndedEarly => gw.cancelled

----------------------------------------------------------------------------
(* processLocalImages on one response text: the markup pass over the       *)
(* markdown images with a local path, then the pass over the bare paths,   *)
(* every upload free to succeed or fail.                                   *)

MaxSegments == 2

BareWindow == 10

NoMatch == [none |-> TRUE]

\* the alternatives of the two patterns
SchemePrefixes == { <<"f", "i", "l", "e", ":", "/", "/", "/">>, <<"M", "E", "D", "I", "A", ":">>, <<"a", "t", "t", "a", "c", "h", "m", "e", "n", "t", ":", "/", "/", "/">> }
LocalDirs == { <<"t", "m", "p">>, <<"v", "a", "r">>, <<"p", "r", "i", "v", "a", "t", "e">>, <<"U", "s", "e", "r", "s">> }
BareExtensions == { <<"p", "n", "g">>, <<"j", "p", "g">>, <<"j", "p", "e", "g">>, <<"g", "i", "f">>, <<"b", "m", "p">>, <<"w", "e", "b", "p">> }

\* [^\s)] and [^\s`'",)]
PathStops == WhiteSpace \cup {")"}
BareStops == WhiteSpace \cup {"U+0060", "'", "\"", ",", ")"}

\* the last index of the longest run from p of characters outside stops
RunEnd(s, p, stops) ==
    CHOOSE e \in (p - 1)..Len(s) :
        /\ \A k \in p..e : s[k] \notin stops
        /\ e = Len(s) \/ s[e + 1] \in stops

\* LOCAL_IMAGE_RE tried at index i: ![alt](path)
MatchLocalAt(s, i) ==
    IF ~(i + 1 <= Len(s) /\ s[i] = "!" /\ s[i + 1] = "[") THEN NoMatch
    ELSE IF \A j \in (i + 2)..Len(s) : s[j] # "]" THEN NoMatch
    ELSE LET j == CHOOSE x \in (i + 2)..Len(s) :
                      s[x] = "]" /\ \A y \in (i + 2)..(x - 1) : s[y] # "]"
             e == RunEnd(s, j + 2, PathStops)
             rawPath == SubSeq(s, j + 2, e)
         IN  IF /\ j + 1 <= Len(s) /\ s[j + 1] = "("
                /\ \/ \E pre \in SchemePrefixes :
                         StartsWith(rawPath, pre) /\ Len(rawPath) > Len(pre)
                   \/ \E d \in LocalDirs :
                         StartsWith(rawPath, <<"/">> \o d) /\ Len(rawPath) > Len(d) + 1
                /\ e + 1 <= Len(s) /\ s[e + 1] = ")"
             THEN [index |-> i, fullMatch |-> SubSeq(s, i, e + 1),
                   alt |-> SubSeq(s, i + 2, j - 1), rawPath |-> rawPath]
             ELSE NoMatch

\* BARE_IMAGE_PATH_RE tried at index i, letter case apart: an optional backtick,
\* /dir/, the longest run that a dot and an extension follow, an optional backtick
MatchBareAt(s, i) ==
    LET q == IF i <= Len(s) /\ s[i] = "U+0060" THEN i + 1 ELSE i
        low == ToLowerCase(s)
        dirs == {d \in LocalDirs :
                    /\ q + Len(d) + 1 <= Len(s)
                    /\ SubSeq(low, q + 1, q + Len(d)) = ToLowerCase(d)
                    /\ s[q + Len(d) + 1] = "/"}
    IN  IF ~(q <= Len(s) /\ s[q] = "/") \/ dirs = {} THEN NoMatch
        ELSE LET d == CHOOSE x \in dirs : TRUE
                 r == q + Len(d) + 2
                 e == RunEnd(s, r, BareStops)
                 ends == {k \in r..e :
                            /\ k + 1 <= Len(s) /\ s[k + 1] = "."
                            /\ \E x \in BareExtensions :
                                  /\ k + 1 + Len(x) <= Len(s)
                                  /\ SubSeq(low, k + 2, k + 1 + Len(x)) = x}
             IN  IF ends = {} THEN NoMatch
                 ELSE LET k == CHOOSE x \in ends : \A y \in ends : y <= x
                          ext == CHOOSE x \in BareExtensions :
                                     /\ k + 1 + Len(x) <= Len(s)
                                     /\ SubSeq(low, k + 2, k + 1 + Len(x)) = x
                          last == k + 1 + Len(ext)
                          stop == IF last + 1 <= Len(s) /\ s[last + 1] = "U+0060"
                                  THEN last + 1 ELSE last
                      IN  [index |-> i, fullMatch |-> SubSeq(s, i, stop),
                           rawPath |-> SubSeq(s, q, last)]

\* [...s.matchAll(re)]: the matches from left to right, each search going on where
\* the match before it ended
RECURSIVE MatchAllLocal(_, _)
MatchAllLocal(s, i) ==
    IF i > Len(s) THEN <<>>
    ELSE LET m == MatchLocalAt(s, i)
         IN  IF m # NoMatch THEN <<m>> \o MatchAllLocal(s, i + Len(m.fullMatch))
             ELSE MatchAllLocal(s, i + 1)

RECURSIVE MatchAllBare(_, _)
MatchAllBare(s, i) ==
    IF i > Len(s) THEN <<>>
    ELSE LET m == MatchBareAt(s, i)
         IN  IF m # NoMatch THEN <<m>> \o MatchAllBare(s, i + Len(m.fullMatch))
             ELSE MatchAllBare(s, i + 1)

\* !result.slice(Math.max(0, idx - 10), idx).includes('](')
NotInsideMarkup(result, m) ==
    LET from == IF m.index - BareWindow > 1 THEN m.index - BareWindow ELSE 1
    IN  ~Includes(SubSeq(result, from, m.index - 1), <<"]", "(">>)

\* ms.filter(keep), ms.reverse()
RECURSIVE Filter(_, _)
Filter(result, ms) ==
    IF ms = <<>> THEN <<>>
    ELSE IF NotInsideMarkup(result, Head(ms))
    THEN <<Head(ms)>> \o Filter(result, Tail(ms))
    ELSE Filter(result, Tail(ms))

Reverse_Keeps(ms) == ms
Reverse(ms) == [i \in 1..Len(ms) |-> ms[Len(ms) + 1 - i]]

\* s.replace(pattern, replacement) with a string pattern: the first occurrence (the
\* texts of the model hold no '$')
ReplaceFirst(s, pattern, replacement) ==
    IF ~Includes(s, pattern) THEN s
    ELSE LET i == CHOOSE x \in 1..Len(s) :
                      /\ SubSeq(s, x, x + Len(pattern) - 1) = pattern
                      /\ \A y \in 1..(x - 1) : SubSeq(s, y, y + Len(pattern) - 1) # pattern
         IN  SubSeq(s, 1, i - 1) \o replacement \o SubSeq(s, i + Len(pattern), Len(s))

\* result.slice(0, idx) + result.slice(idx).replace(fullMatch, replacement)
ReplaceFrom(s, idx, pattern, replacement) ==
    SubSeq(s, 1, idx - 1)
        \o ReplaceFirst(SubSeq(s, idx, Len(s)), pattern, replacement)

\* `![${alt}](${mediaId})`
ImageMarkup(alt, mediaId) == <<"!", "[">> \o alt \o <<"]", "(">> \o mediaId \o <<")">>

\* the media_id the n-th upload is answered with
MediaId(n) == <<"@">> \o Dec(n)

\* the pieces a response text is made of: markdown images with a local path behind
\* each prefix, a markdown image with a remote URL, a bare path without and with
\* backticks, and words
Segments ==
    { <<"!", "[", "a", "]", "(", "/", "t", "m", "p", "/", "x", ".", "p", "n", "g", ")">>,
      <<"!", "[", "a", "]", "(", "f", "i", "l", "e", ":", "/", "/", "/", "t", "m", "p", "/", "x", ".", "p", "n", "g", ")">>,
      <<"!", "[", "a", "]", "(", "M", "E", "D", "I", "A", ":", "/", "t", "m", "p", "/", "x", ".", "p", "n", "g", ")">>,
      <<"!", "[", "a", "]", "(", "a", "t", "t", "a", "c", "h", "m", "e", "n", "t", ":", "/", "/", "/", "t", "m", "p", "/", "x", ".", "p", "n", "g", ")">>,
      <<"!", "[", "a", "]", "(", "h", "t", "t", "p", ":", "/", "/", "h", ".", "e", "x", "a", "m", "p", "l", "e", "/", "t", "m", "p", "/", "x", ".", "p", "n", "g", ")">>,
      <<"/", "t", "m", "p", "/", "y", ".", "p", "n", "g">>,
      <<"U+0060", "/", "t", "m", "p", "/", "y", ".", "p", "n", "g", "U+0060">>,
      <<"s", "e", "e">> }

SegmentSeqs == UNION {[1..n -> Segments] : n \in 1..MaxSegments}

\* the pieces with a blank between them
RECURSIVE Joined(_)
Joined(ss) ==
    IF Len(ss) = 1 THEN ss[1] ELSE Head(ss) \o <<" ">> \o Joined(Tail(ss))

\* the bare matches the second pass works on, last first
NewBareMatches(result) == Reverse(Filter(result, MatchAllBare(result, 1)))

\* processLocalImages is called; uploads (every uploadToDingTalk call with its
\* answer) and afterMarkup (result when the first pass ended) are history
MediaRun(content, oapiToken) ==
    [pc |-> "start", content |-> content, oapiToken |-> oapiToken, result |-> content,
     mdMatches |-> <<>>, bareMatches |-> <<>>, i |-> 1, uploads |-> <<>>,
     afterMarkup |-> <<>>]

MediaInit ==
    /\ media \in {MediaRun(Joined(ss), t) : ss \in SegmentSeqs, t \in BOOLEAN}
    /\ gw = NoRun
    /\ acct = NoRun
    /\ tk = NoRun
    /\ now = 0
    /\ userSessions = <<>>
    /\ issued = [s \in SenderIds |-> {}]
    /\ lastCall = NoCall
    /\ text = <<>>
    /\ cmdResult = <<>>
    /\ HandlerAtRest

\* the first pass is over: the bare matches of result are taken and filtered
EnterBare(m) ==
    LET bare == NewBareMatches(m.result)
    IN  [m EXCEPT !.afterMarkup = <<m.result>>, !.bareMatches = bare, !.i = 1,
                  !.pc = IF bare = <<>> THEN "returned" ELSE "bare"]

\* if (!oapiToken) return content; else the markdown matches of content are taken
ScanMarkup ==
    /\ media.pc = "start"
    /\ media' = IF ~media.oapiToken THEN [media EXCEPT !.pc = "returned"]
                ELSE LET md == MatchAllLocal(media.content, 1)
                     IN  IF md = <<>> THEN EnterBare(media)
                         ELSE [media EXCEPT !.mdMatches = md, !.i = 1, !.pc = "md"]
    /\ UNCHANGED <<sessVars, cmdVars, hVars, gw, acct, tk>>

\* one turn of the first loop: upload, and replace when a media id came back
UploadMarkup ==
    /\ media.pc = "md"
    /\ \E ok \in BOOLEAN :
          LET match == media.mdMatches[media.i]
              mediaId == MediaId(Len(media.uploads) + 1)
              m1 == [media EXCEPT
                       !.uploads = Append(@, [pass |-> "md", index |-> match.index,
                                              fullMatch |-> match.fullMatch,
                                              rawPath |-> match.rawPath, ok |-> ok,
                                              mediaId |-> IF ok THEN mediaId
                                                          ELSE <<>>]),
                       !.result = IF ok
                                  THEN ReplaceFirst(@, match.fullMatch,
                                                    ImageMarkup(match.alt, mediaId))
                                  ELSE @,
                       !.i = @ + 1]
          IN  media' = IF media.i = Len(media.mdMatches) THEN EnterBare(m1) ELSE m1
    /\ UNCHANGED <<sessVars, cmdVars, hVars, gw, acct, tk>>

\* one turn of the second loop: upload, and replace when a media id came back
UploadBare ==
    /\ media.pc = "bare"
    /\ \E ok \in BOOLEAN :
          LET match == media.bareMatches[media.i]
              mediaId == MediaId(Len(media.uploads) + 1)
          IN  media' = [media EXCEPT
                          !.uploads = Append(@, [pass |-> "bare", index |-> match.index,
                                                 fullMatch |-> match.fullMatch,
                                                 rawPath |-> match.rawPath, ok |-> ok,
                                                 mediaId |-> IF ok THEN mediaId
                                                             ELSE <<>>]),
                          !.result = IF ok
                                     THEN ReplaceFrom(@, match.index, match.fullMatch,
                                                      ImageMarkup(<<>>, mediaId))
                                     ELSE @,
                          !.i = @ + 1,
                          !.pc = IF media.i = Len(media.bareMatches) THEN "returned"
                                 ELSE "bare"]
    /\ UNCHANGED <<sessVars, cmdVars, hVars, gw, acct, tk>>

MediaNext ==
    \/ ScanMarkup
    \/ UploadMarkup
    \/ UploadBare

MediaSpec == MediaInit /\ [][MediaNext]_vars

\* content with the k-th markdown image and those before it replaced where they
\* stand, each by the markup with its own alt text and the media id of its own
\* upload if that succeeded
RECURSIVE ReplacedInPlace(_, _, _, _)
ReplacedInPlace(content, matches, ups, k) ==
    IF k = 0 THEN content
    ELSE LET m == matches[k]
             here == IF ups[k].ok
                     THEN SubSeq(content, 1, m.index - 1)
                              \o ImageMarkup(m.alt, ups[k].mediaId)
                              \o SubSeq(content, m.index + Len(m.fullMatch), Len(content))
                     ELSE content
         IN  ReplacedInPlace(here, matches, ups, k - 1)

MarkupPassDone == media # NoRun /\ media.afterMarkup # <<>>

\* C19: when the markup pass has ended, every markdown image with a local path whose
\* upload succeeded stands replaced as a whole by '![<same alt>](<media id>)' and
\* every one whose upload failed stands as it was in the input, also when several of
\* them are the same text and their uploads end differently.
C19_MarkupReplacedByOutcome ==
    MarkupPassDone =>
        media.afterMarkup[1] =
            ReplacedInPlace(media.content, media.mdMatches, media.uploads,
                            Len(media.mdMatches))

\* the places of the '](' of the markdown images of s
ImageOpeners(s) ==
    {j \in 1..(Len(s) - 1) :
        /\ s[j] = "]" /\ s[j + 1] = "("
        /\ \E i \in 1..(j - 2) :
              s[i] = "!" /\ s[i + 1] = "[" /\ \A y \in (i + 2)..(j - 1) : s[y] # "]"}

\* index idx of s lies in the parentheses of a markdown image ![alt](...)
InsideImage(s, idx) ==
    \E j \in ImageOpeners(s) :
        LET e == RunEnd(s, j + 2, PathStops)
        IN  j + 2 <= idx /\ idx <= e /\ e + 1 <= Len(s) /\ s[e + 1] = ")"

\* C20: the bare-path pass uploads (and so rewrites) no path that lies inside a
\* markdown image ![alt](...), whatever stands between the '](' and the path.
C20_BarePassSkipsMarkupPaths ==
    MarkupPassDone =>
        \A n \in 1..Len(media.uploads) :
            media.uploads[n].pass = "bare" =>
                ~InsideImage(media.afterMarkup[1], media.uploads[n].index)

UploadsOf(pass) == {n \in 1..Len(media.uploads) : media.uploads[n].pass = pass}
MediaReturned == media # NoRun /\ media.pc = "returned" /\ media.oapiToken

\* the bare paths of s that stand outside every markdown image
BarePathsOutside(s) ==
    LET ms == MatchAllBare(s, 1)
    IN  {k \in 1..Len(ms) : ~InsideImage(s, ms[k].index)}

\* C21: in one processLocalImages call every local file reference of the text is
\* uploaded exactly once: as many uploads are made as the text holds markdown images
\* with a local path and bare paths outside markdown images, and no upload of the
\* bare-path pass is for a path inside a markdown image.
C21_EachReferenceUploadedOnce ==
    MediaReturned =>
        /\ Len(media.uploads) =
              Len(MatchAllLocal(media.content, 1))
                  + Cardinality(BarePathsOutside(media.content))
        /\ \A n \in UploadsOf("bare") :
              ~InsideImage(media.afterMarkup[1], media.uploads[n].index)

\* s with the span of every upload of ups that succeeded replaced by the markup with
\* its media id and an empty alt text, the rightmost span first
RECURSIVE ReplaceSpans(_, _)
ReplaceSpans(s, ups) ==
    IF ups = {} THEN s
    ELSE LET u == CHOOSE x \in ups : \A y \in ups : y.index <= x.index
             here == IF u.ok
                     THEN SubSeq(s, 1, u.index - 1) \o ImageMarkup(<<>>, u.mediaId)
                              \o SubSeq(s, u.index + Len(u.fullMatch), Len(s))
                     ELSE s
         IN  ReplaceSpans(here, ups \ {u})

\* C22: the bare-path pass takes its matches rightmost first, and when it has ended
\* the result is the text the pass began with, in which the span of every accepted
\* match whose upload succeeded is '![](<media id>)' and everything else is as it was.
C22_BareSpansReplacedRightmostFirst ==
    MarkupPassDone =>
        /\ \A n1, n2 \in UploadsOf("bare") :
              n1 < n2 => media.uploads[n1].index > media.uploads[n2].index
        /\ \A n \in UploadsOf("bare") : n > Len(media.mdMatches)
        /\ media.pc = "returned" =>
              /\ Cardinality(UploadsOf("bare")) = Len(media.bareMatches)
              /\ media.result =
                    ReplaceSpans(media.afterMarkup[1],
                                 {media.uploads[n] : n \in UploadsOf("bare")})

\* two bare paths, the right one in backticks, both uploaded and replaced
C22_Witness ==
    /\ MediaReturned
    /\ Cardinality(UploadsOf("bare")) = 2
    /\ \A n \in UploadsOf("bare") : media.uploads[n].ok
    /\ \E n \in UploadsOf("bare") : Len(media.uploads[n].fullMatch) = 12
    /\ Len(media.result) < Len(media.content)

\* where the k-th markdown image stands once the successful ones before it are
\* replaced
ShiftedIndex(matches, ups, k) ==
    LET Shift[j \in 0..(k - 1)] ==
            IF j = 0 THEN 0
            ELSE Shift[j - 1]
                   + (IF ups[j].ok
                      THEN Len(ImageMarkup(matches[j].alt, ups[j].mediaId))
                               - Len(matches[j].fullMatch)
                      ELSE 0)
    IN  matches[k].index + Shift[k - 1]

\* the text full stands in s at index at
StandsAt(s, at, full) ==
    at >= 1 /\ at + Len(full) - 1 <= Len(s) /\ SubSeq(s, at, at + Len(full) - 1) = full

\* by how much the successful uploads of the bare-path pass to the left of index
\* have moved what stands at index
RECURSIVE BareShift(_, _)
BareShift(ns, index) ==
    IF ns = {} THEN 0
    ELSE LET n == CHOOSE x \in ns : TRUE
             u == media.uploads[n]
         IN  (IF u.ok /\ u.index < index
              THEN Len(ImageMarkup(<<>>, u.mediaId)) - Len(u.fullMatch) ELSE 0)
                 + BareShift(ns \ {n}, index)

\* C23: a failed upload ends nothing: the call returns, with an upload made for every
\* markdown image and every accepted bare match, and the text of every occurrence
\* whose upload failed stands in the result as it was: that of a markdown image after
\* the markup pass, that of a bare path after the bare-path pass.
C23_FailedUploadLeavesText ==
    /\ MarkupPassDone =>
          /\ Cardinality(UploadsOf("md")) = Len(media.mdMatches)
          /\ \A k \in 1..Len(media.mdMatches) :
                ~media.uploads[k].ok =>
                    LET at == ShiftedIndex(media.mdMatches, media.uploads, k)
                        full == media.mdMatches[k].fullMatch
                    IN  StandsAt(media.afterMarkup[1], at, full)
    /\ MediaReturned =>
          /\ Cardinality(UploadsOf("bare")) = Len(media.bareMatches)
          /\ \A n \in UploadsOf("bare") :
                ~media.uploads[n].ok =>
                    LET u == media.uploads[n]
                    IN  StandsAt(media.result,
                                 u.index + BareShift(UploadsOf("bare"), u.index),
                                 u.fullMatch)

----------------------------------------------------------------------------
(* handleDingTalkMessage again: what reaches the user when there is no     *)
(* card or the stream fails, the tokens getAccessToken returns, and the    *)
(* failures of the two status writes.                                      *)

\* the plain mode has consumed the whole stream and sends, or has sent, the reply
PlainCompleted ==
    /\ h.card = NoCard
    /\ h.region = "plain_try"
    /\ h.pc \in {"send_token", "send_post", "done"}

\* C24: when createAICard returns null and the stream completes, the reply is one
\* plain/markdown send whose text is processLocalImages applied to the concatenation
\* of all fragments: with an oapi token and a local image in the text an upload is
\* made and its outcome decides the text sent.
C24_PlainReplyPostProcessed ==
    (PlainCompleted /\ h.received # <<>>) =>
        LET all == Flatten(h.received)
            mention == IF h.isDirect THEN <<>> ELSE <<h.senderId>>
        IN  /\ Uploads(all, h.oapiToken) => Count("upload") = 1
            /\ \E u \in BOOLEAN :
                  /\ \A i \in CallIdx("upload") : calls[i].ok = u
                  /\ h.outbox = OutboundMessage(ProcessLocalImages(all, h.oapiToken, u),
                                                mention, TRUE)
            /\ h.pc = "done" => Count("webhook") = 1

\* the read of the response body failed and the catch block has taken over
ReadFailedInLoop ==
    /\ h.error = ErrRead
    /\ h.region \in {"card_catch", "plain_catch"}

\* the text the catch block delivers: the final push of the card, or the plain message
Delivered == IF h.card # NoCard THEN h.pushContent ELSE h.outbox.body

\* C25: when the stream fails while it is consumed, with a card and without one, the
\* text delivered is everything accumulated before the error followed by an error
\* annotation, and the finalize (the card's final push, or the plain send) is
\* attempted.
C25_PartialTextKeptOnError ==
    ReadFailedInLoop =>
        LET all == Flatten(h.received)
        IN  /\ IsPrefix(all, Delivered)
            /\ Len(Delivered) >= Len(all) + Len(ErrRead)
            /\ SubSeq(Delivered, Len(Delivered) - Len(ErrRead) + 1, Len(Delivered))
                  = ErrRead
            /\ h.card # NoCard => h.pushFinal
            /\ h.pc \in {"inputing", "streaming", "finished", "send_token",
                          "send_post", "done"}

\* C26: getAccessToken never returns a token for which now + 60 s >= expiry, from
\* the cache or fresh from the token endpoint, whatever expireIn the endpoint gave.
C26_ReturnedTokenOutsideMargin ==
    h.tokenReturn # NoToken =>
        h.tokenReturn.at + TokenMargin < h.tokenReturn.expiry

\* the FINISHED writes that failed
FinishedFailed == {i \in CallIdx("finished") : ~calls[i].ok}

\* C27: when the FINISHED write fails after the final push succeeded, finishAICard
\* returns: the handler returns with no call after the write, the accumulated text is
\* the text finalized (no annotation is added), the region of the handler is the one
\* finishAICard was called in, and the one successful final push stays the only one.
C27_FinishedFailureSwallowed ==
    \A i \in FinishedFailed :
        /\ i = Len(calls)
        /\ i > 1 /\ calls[i - 1].op = "streaming" /\ calls[i - 1].final /\ calls[i - 1].ok
        /\ h.pc = "done" /\ h.outcome = "returned"
        /\ h.accumulated = calls[i].content
        /\ h.accumulated = calls[i - 1].content
        /\ h.region = "card_try" => h.error = <<>>
        /\ Cardinality(FinalOk) = 1

\* the FINISHED write fails on the normal path, after a stream of two fragments
C27_Witness ==
    /\ FinishedFailed # {}
    /\ h.region = "card_try"
    /\ Len(h.received) = 2
    /\ h.outcome = "returned"

\* the INPUTING writes that failed
InputingFailed == {i \in CallIdx("inputing") : ~calls[i].ok}

\* C28: when the INPUTING write fails, streamAICard throws without making the
\* content push and without marking the card: the next call, if any, is not a
\* streaming push, the error is with the caller, and the card is marked as started
\* exactly when an INPUTING write has succeeded.
C28_InputingFailurePropagates ==
    h.card # NoCard =>
        /\ h.card.inputingStarted <=> InputingOk # {}
        /\ \A i \in InputingFailed :
              /\ i < Len(calls) => calls[i + 1].op # "streaming"
              /\ h.region = "card_catch"
              /\ i = Len(calls) =>
                    /\ h.error = ErrRequest
                    /\ ~h.card.inputingStarted
                    /\ \/ h.pc = "inputing" /\ h.pushFinal
                       \/ h.pc = "done"

\* the INPUTING write of the loop's first push has failed; the catch block is about
\* to try the card again
C28_Witness ==
    /\ h.card # NoCard
    /\ InputingFailed = {Len(calls)}
    /\ h.received # <<>>
    /\ h.pc = "inputing"
    /\ ~h.card.inputingStarted

\* the streaming pushes of the loop, as the log keeps them
LoopPushes == {i \in CallIdx("streaming") : ~calls[i].final}

\* C30: with a card, every content pushed before the stream ends is the
\* concatenation, in arrival order, of the fragments received until then; so each is
\* a prefix of the next and of the accumulated text processLocalImages is given.
C30_PushedContentIsConcatenation ==
    h.card # NoCard =>
        /\ \A k \in 1..Len(h.pushStarts) :
              LET p == h.pushStarts[k]
              IN  /\ p.content = Flatten(SubSeq(h.received, 1, p.count))
                  /\ IsPrefix(p.content, Flatten(h.received))
                  /\ k < Len(h.pushStarts) =>
                        /\ p.count < h.pushStarts[k + 1].count
                        /\ IsPrefix(p.content, h.pushStarts[k + 1].content)
        /\ \A i \in LoopPushes : \E k \in 1..Len(h.pushStarts) :
              calls[i].content = h.pushStarts[k].content
        /\ h.pc = "post_process" => h.accumulated = Flatten(h.received)

\* two pushes of the loop, the second with both fragments
C30_Witness ==
    /\ h.card # NoCard
    /\ Cardinality(LoopPushes) = 2
    /\ Len(h.pushStarts) = 2
    /\ h.pushStarts[1].content = <<"o", LocalImageRef>>
    /\ h.pushStarts[2].content = <<"o", LocalImageRef, "k">>

----------------------------------------------------------------------------
(* startAccount: the stream client of one account, its callback listener,  *)
(* the abort signal of the gateway and the stop() handed back to it.       *)

MaxEvents == 2

\* account.config as startAccount reads it: are clientId and clientSecret set
AccountConfigs == [clientId : BOOLEAN, clientSecret : BOOLEAN]

\* what an inbound callback carries and how its handling goes: res.data parses or
\* not, res.headers.messageId is there or not, handleDingTalkMessage returns or
\* throws
InboundEvents ==
    [parses : BOOLEAN, hasMessageId : BOOLEAN, outcome : {"returned", "threw"}]

\* if (!config.clientId || !config.clientSecret) throw
MissingCredentials(config) == ~config.clientId \/ ~config.clientSecret

\* the account before startAccount is called with config and, or not, an abortSignal;
\* aborted (the signal has fired) and log (the callbacks delivered) are history
AccountRun(config, hasSignal) ==
    [pc |-> "start", config |-> config, hasSignal |-> hasSignal,
     registered |-> FALSE, connected |-> FALSE, listening |-> FALSE,
     stopped |-> FALSE, aborted |-> FALSE, activity |-> <<>>, log |-> <<>>]

\* if (messageId) client.socketCallBackResponse(messageId, { success }): the calls
\* made, each with where the callback stood when it made it
AckFor(e, success, after) ==
    IF e.hasMessageId THEN <<[success |-> success, after |-> after]>> ELSE <<>>

\* the callback registered for TOPIC_ROBOT, run for one event up to its await:
\* JSON.parse throws and the catch block acknowledges, or handleDingTalkMessage is
\* called
ListenerRun(e) ==
    IF ~e.parses
    THEN [passed |-> FALSE, pc |-> "done", outcome |-> "none",
          acks |-> AckFor(e, FALSE, "parse")]
    ELSE [passed |-> TRUE, pc |-> "handling", outcome |-> "none", acks |-> <<>>]

\* await handleDingTalkMessage(...) settles: the acknowledgement of the try block,
\* or that of the catch block
AfterHandling_AcksSuccess(e, run) ==
    [run EXCEPT !.pc = "done", !.outcome = e.outcome,
                !.acks = @ \o AckFor(e, TRUE, "handled")]
AfterHandling(e, run) ==
    [run EXCEPT !.pc = "done", !.outcome = e.outcome,
                !.acks = @ \o AckFor(e, e.outcome = "returned", "handled")]

\* the 'abort' listener and the returned stop(): both only set the flag and record
MarkStopped(a) ==
    IF a.stopped THEN a
    ELSE [a EXCEPT !.stopped = TRUE, !.activity = Append(@, "stop")]

ListenerInit ==
    /\ acct \in {AccountRun(c, s) : c \in AccountConfigs, s \in BOOLEAN}
    /\ gw = NoRun
    /\ media = NoRun
    /\ tk = NoRun
    /\ now = 0
    /\ userSessions = <<>>
    /\ issued = [s \in SenderIds |-> {}]
    /\ lastCall = NoCall
    /\ text = <<>>
    /\ cmdResult = <<>>
    /\ HandlerAtRest

\* startAccount up to client.connect(): the credentials test, new DWClient,
\* registerCallbackListener
StartAccount ==
    /\ acct.pc = "start"
    /\ acct' = IF MissingCredentials(acct.config) THEN [acct EXCEPT !.pc = "threw"]
               ELSE [acct EXCEPT !.pc = "connect", !.registered = TRUE]
    /\ UNCHANGED <<sessVars, cmdVars, hVars, gw, media, tk>>

\* await client.connect() answers; then the 'start' record, the abort listener and
\* the return of { stop }. An abortSignal that has fired already calls no listener.
Connect ==
    /\ acct.pc = "connect"
    /\ \E ok \in BOOLEAN :
          acct' = IF ok
                  THEN [acct EXCEPT !.pc = "running", !.connected = TRUE,
                                    !.activity = Append(@, "start"),
                                    !.listening = acct.hasSignal /\ ~acct.aborted]
                  ELSE [acct EXCEPT !.pc = "threw"]
    /\ UNCHANGED <<sessVars, cmdVars, hVars, gw, media, tk>>

\* the gateway aborts the signal it gave to startAccount
AbortFires ==
    /\ acct.pc \in {"connect", "running"}
    /\ acct.hasSignal
    /\ ~acct.aborted
    /\ acct' = [(IF acct.listening THEN MarkStopped(acct) ELSE acct)
                    EXCEPT !.aborted = TRUE]
    /\ UNCHANGED <<sessVars, cmdVars, hVars, gw, media, tk>>

\* the gateway calls the stop() startAccount returned
Stop ==
    /\ acct.pc = "running"
    /\ ~acct.stopped
    /\ acct' = MarkStopped(acct)
    /\ UNCHANGED <<sessVars, cmdVars, hVars, gw, media, tk>>

\* the connected client delivers an event of TOPIC_ROBOT to the registered callback
InboundEvent(e) ==
    /\ acct.pc = "running"
    /\ acct.registered /\ acct.connected
    /\ Len(acct.log) < MaxEvents
    /\ acct' = [acct EXCEPT !.log = Append(@, [afterAbort |-> acct.aborted,
                                               afterStop |-> acct.stopped,
                                               event |-> e,
                                               run |-> ListenerRun(e)])]
    /\ UNCHANGED <<sessVars, cmdVars, hVars, gw, media, tk>>

\* handleDingTalkMessage returns or throws for the i-th event delivered, and the
\* callback acknowledges; the callbacks of several events may be awaiting at once
HandlerSettles(i) ==
    /\ i \in 1..Len(acct.log)
    /\ acct.log[i].run.pc = "handling"
    /\ acct' = [acct EXCEPT !.log[i].run = AfterHandling(acct.log[i].event, @)]
    /\ UNCHANGED <<sessVars, cmdVars, hVars, gw, media, tk>>

ListenerNext ==
    \/ StartAccount
    \/ Connect
    \/ AbortFires
    \/ Stop
    \/ \E e \in InboundEvents : InboundEvent(e)
    \/ \E i \in 1..MaxEvents : HandlerSettles(i)

ListenerSpec == ListenerInit /\ [][ListenerNext]_vars

\* C29: once the abort signal of a started account has fired, the transport listener
\* is stopped: no inbound event delivered after the abort is passed to
\* handleDingTalkMessage.
C29_NoEventHandledAfterAbort ==
    \A i \in 1..Len(acct.log) :
        acct.log[i].afterAbort => ~acct.log[i].run.passed

\* C32: for every inbound event that carries a messageId the callback makes exactly
\* one acknowledgement, and makes it only once the handling is over: none while
\* handleDingTalkMessage is awaited, one after it, with success = true if it
\* returned and success = false if it threw or the data did not parse. An event
\* without a messageId is not acknowledged.
C32_OneAcknowledgementAfterHandling ==
    \A i \in 1..Len(acct.log) :
        LET x == acct.log[i]
            acks == x.run.acks
        IN  /\ ~x.event.hasMessageId => acks = <<>>
            /\ x.event.hasMessageId =>
                  /\ Len(acks) = (IF x.run.pc = "done" THEN 1 ELSE 0)
                  /\ \A k \in 1..Len(acks) :
                        /\ acks[k].success <=>
                              (x.run.passed /\ x.run.outcome = "returned")
                        /\ x.run.passed <=> acks[k].after = "handled"

\* two events with a messageId: the handling of the first has returned and that of
\* the second has thrown, each acknowledged once
C32_Witness ==
    /\ Len(acct.log) = 2
    /\ \A i \in 1..2 : acct.log[i].event.hasMessageId
    /\ acct.log[1].run.pc = "done"
    /\ acct.log[1].run.outcome = "returned"
    /\ acct.log[1].run.acks = <<[success |-> TRUE, after |-> "handled"]>>
    /\ acct.log[2].run.outcome = "threw"
    /\ acct.log[2].run.acks = <<[success |-> FALSE, after |-> "handled"]>>

----------------------------------------------------------------------------
(* getAccessToken called by messages handled concurrently: a call runs     *)
(* from its entry to the await of the token request, and from the answer   *)
(* to its return, without interruption; between the two any other call may *)
(* run.                                                                    *)

MaxCallers == 2
MaxCalls == 3

Callers == 1..MaxCallers

\* response.data of the token endpoint: accessToken (named by the serial number of
\* the response) and expireIn, in seconds
TokenResponse(n, e) == [accessToken |-> [serial |-> n], expireIn |-> e]

\* accessToken = response.data.accessToken;
\* accessTokenExpiry = now + (response.data.expireIn * 1000);
\* cached is what the two variables hold before the writes, t the now of the call
StoreToken_KeepsLaterExpiry(cached, r, t) ==
    [token |-> r.accessToken,
     expiry |-> IF cached.expiry > t + r.expireIn * 1000 THEN cached.expiry
                ELSE t + r.expireIn * 1000]
StoreToken(cached, r, t) ==
    [token |-> r.accessToken, expiry |-> t + r.expireIn * 1000]

\* the frame of a getAccessToken call: its position, the now it read, what it returned
IdleCall == [pc |-> "idle", now |-> 0, result |-> NoToken]

\* no call has been made; entered (the calls made), responses (the answers of the
\* token endpoint, each with the call it answered) and handed (the returns) are
\* history
TokenRun ==
    [frames |-> [c \in Callers |-> IdleCall], entered |-> 0, responses |-> <<>>,
     handed |-> {}]

TokenInit ==
    /\ tk = TokenRun
    /\ now = StartTime
    /\ userSessions = <<>>
    /\ issued = [s \in SenderIds |-> {}]
    /\ lastCall = NoCall
    /\ text = <<>>
    /\ cmdResult = <<>>
    /\ HandlerAtRest
    /\ gw = NoRun
    /\ media = NoRun
    /\ acct = NoRun

\* time passes
TokenTick ==
    /\ now < StartTime + MaxTicks * TickMs
    /\ now' = now + TickMs
    /\ UNCHANGED <<userSessions, issued, lastCall, cmdVars, hVars, gw, media, acct, tk>>

\* a call of getAccessToken up to its first await: the cached token is returned, or
\* the token request is sent
TokenEnter(c) ==
    /\ tk.frames[c].pc \in {"idle", "returned", "threw"}
    /\ tk.entered < MaxCalls
    /\ tk' = IF TokenIsFresh(accessToken, accessTokenExpiry, now)
             THEN [tk EXCEPT !.entered = @ + 1,
                             !.frames[c] = [pc |-> "returned", now |-> now,
                                            result |-> accessToken],
                             !.handed = @ \cup {[token |-> accessToken, at |-> now,
                                                 fetched |-> FALSE]}]
             ELSE [tk EXCEPT !.entered = @ + 1,
                             !.frames[c] = [pc |-> "await", now |-> now,
                                            result |-> NoToken]]
    /\ UNCHANGED <<sessVars, cmdVars, hVars, gw, media, acct>>

\* the token request of c is answered: both variables are written and the token is
\* returned, with no await in between
TokenRespond(c, e) ==
    /\ tk.frames[c].pc = "await"
    /\ LET r == TokenResponse(Len(tk.responses) + 1, e)
           stored == StoreToken([token |-> accessToken, expiry |-> accessTokenExpiry],
                                r, tk.frames[c].now)
       IN  /\ accessToken' = stored.token
           /\ accessTokenExpiry' = stored.expiry
           /\ tk' = [tk EXCEPT !.frames[c].pc = "returned",
                               !.frames[c].result = stored.token,
                               !.responses = Append(@, [response |-> r, caller |-> c,
                                                        now |-> tk.frames[c].now]),
                               !.handed = @ \cup {[token |-> stored.token,
                                                   at |-> tk.frames[c].now,
                                                   fetched |-> TRUE]}]
    /\ UNCHANGED <<sessVars, cmdVars, dingtalkConfig, h, calls, handled, gw, media,
                   acct>>

\* the token request of c fails: axios.post rejects and getAccessToken throws
TokenReject(c) ==
    /\ tk.frames[c].pc = "await"
    /\ tk' = [tk EXCEPT !.frames[c].pc = "threw"]
    /\ UNCHANGED <<sessVars, cmdVars, hVars, gw, media, acct>>

TokenNext ==
    \/ TokenTick
    \/ \E c \in Callers : TokenEnter(c)
    \/ \E c \in Callers, e \in ExpireIns : TokenRespond(c, e)
    \/ \E c \in Callers : TokenReject(c)

TokenSpec == TokenInit /\ [][TokenNext]_vars

\* the token and the expiry that the i-th response gives to the call it answered
FromResponse(i) ==
    LET a == tk.responses[i]
    IN  [token |-> a.response.accessToken,
         expiry |-> a.now + a.response.expireIn * 1000]

\* C31: however concurrent getAccessToken calls interleave, the cached token and
\* the cached expiry are those of one and the same response of the token endpoint,
\* and every token handed to a caller is the token of some response.
C31_CacheNeverTorn ==
    /\ accessToken = NoToken => accessTokenExpiry = 0 /\ tk.responses = <<>>
    /\ accessToken # NoToken =>
          \E i \in 1..Len(tk.responses) :
              [token |-> accessToken, expiry |-> accessTokenExpiry] = FromResponse(i)
    /\ \A x \in tk.handed :
          \E i \in 1..Len(tk.responses) : x.token = FromResponse(i).token
    /\ \A c \in Callers :
          tk.frames[c].pc = "returned" =>
              \E i \in 1..Len(tk.responses) :
                  tk.frames[c].result = FromResponse(i).token

\* two refreshes in flight at once, answered in the reverse of the order they were
\* sent in, with different expireIn: the cache holds the pair of the second answer
C31_Witness ==
    /\ Len(tk.responses) = 2
    /\ tk.responses[1].caller # tk.responses[2].caller
    /\ tk.responses[1].now > tk.responses[2].now
    /\ tk.responses[1].response.expireIn > tk.responses[2].response.expireIn
    /\ [token |-> accessToken, expiry |-> accessTokenExpiry] = FromResponse(2)
    /\ \A c \in Callers : tk.frames[c].pc = "returned"

====
